---- MODULE Spec2Model ----
(***************************************************************************)
(* Model of the store-agent repository.                                    *)
(*                                                                         *)
(*   Spec      the in-memory store of store_functions.py: the inventory,   *)
(*             the shelf layouts, the storage requests and the eleven      *)
(*             tool functions, called in any order with any arguments.     *)
(*   ChatSpec  the transcript reducer of chat_ui.py: azure_store_chat and  *)
(*             the EventHandler registered with the stream, driven by any  *)
(*             sequence of stream events.                                  *)
(*   RequestSpec, RestockedSpec                                            *)
(*             the store started from tables it reaches after more calls   *)
(*             than one behaviour of Spec makes.                           *)
(*   TurnSpec  ChatSpec on a fresh interface, with the generator run to    *)
(*             its end (weak fairness of the send and stream steps).       *)
(*   ClearSpec ChatSpec with main.py's "Clear Chat History" button, which  *)
(*             creates a new conversation thread.                          *)
(*   PollSpec  storage requests made and checked without end, the random   *)
(*             draws of check_delivery_status being fair.                  *)
(*                                                                         *)
(* Python lists are sequences; Python indices are 0-based and are kept     *)
(* 0-based in the arguments, so list[i] is written seq[i + 1].             *)
(***************************************************************************)
EXTENDS Integers, Sequences, FiniteSets, TLC

VARIABLES
    inventory,          \* store_functions.inventory: item id -> record
    shelf_layouts,      \* store_functions.shelf_layouts: shelf id -> rows of slots
    storage_requests,   \* store_functions.storage_requests: request id -> record
    call,               \* the tool call made last (function name and arguments)
    result,             \* the object that call returned
    calls,              \* number of tool calls made so far
    pc,                 \* where azure_store_chat is: "idle", "send" or "stream"
    conversation,       \* azure_store_chat's list of ChatMessage
    emitted,            \* the transcript yielded last (the chatbot's value)
    input_box,          \* the text in the input box (main.py's input_box)
    active_tool_calls,  \* azure_store_chat's table of running tool calls
    event_handler,      \* the fields of the EventHandler given to the stream
    last_message_sent_time, \* create_chat_interface's debounce time stamp
    turns,              \* number of submissions so far
    submitted_at,       \* time.time() at the last submission
    log,                \* what the stream of the current turn did: its events, in
                        \* order, and the exception that ended it
    events,             \* number of stream events so far, over all turns
    thread,             \* main.py's global thread (its id)
    azure_store_chat,   \* main.py's global azure_store_chat: the closure it names
    submit_fn,          \* the function object registered with input_box.submit
    turn_thread         \* the thread.id the last accepted turn sent its message to
                        \* and opened its stream on

storeVars == <<inventory, shelf_layouts, storage_requests, call, result, calls>>

chatVars == <<pc, conversation, emitted, input_box, active_tool_calls, event_handler,
              last_message_sent_time, turns, submitted_at, log, events>>

mainVars == <<thread, azure_store_chat, submit_fn>>

vars == <<inventory, shelf_layouts, storage_requests, call, result, calls,
          pc, conversation, emitted, input_box, active_tool_calls, event_handler,
          last_message_sent_time, turns, submitted_at, log, events,
          thread, azure_store_chat, submit_fn, turn_thread>>

-----------------------------------------------------------------------------
(* Bounds *)

\* Tool calls per behaviour.
MaxCalls == 2

\* Stream events per behaviour, over all its turns.
MaxEvents == 3

\* Submissions (turns of azure_store_chat) per behaviour.
MaxTurns == 1

\* Conversation threads created at most, the first one included.
MaxThreads == 2

-----------------------------------------------------------------------------
(* Program constants *)

\* Seconds within which a second submission is dropped.
DebounceSeconds == 2

\* Characters of a tool output shown in its bubble.
OutputLimit == 100

-----------------------------------------------------------------------------
(* The fixture: store_functions.py lines 8-102 *)

\* Python's None in a shelf slot, a category filter or a notes argument.
None == "None"

Item(name, stock, category, location_id, position) ==
    [name |-> name, stock |-> stock, category |-> category,
     location_id |-> location_id, position |-> position]

\* Keys of `inventory` in insertion order (dict iteration order).
InventoryKeys ==
    << "SKU001", "SKU002", "SKU003", "SKU004",
       "SKU010", "SKU011", "SKU012", "SKU013",
       "SKU020", "SKU021", "SKU022", "SKU023",
       "SKU030", "SKU031", "SKU032", "SKU033",
       "SKU040", "SKU041", "SKU042", "SKU043" >>

InitialInventory ==
    ( "SKU001" :> Item("Contoso Cereal", 15, "Breakfast", "A1", 1)
   @@ "SKU002" :> Item("Northwind Oatmeal", 12, "Breakfast", "A1", 2)
   @@ "SKU003" :> Item("Adventure Granola", 8, "Breakfast", "A2", 0)
   @@ "SKU004" :> Item("Fabrikam Pancake Mix", 10, "Breakfast", "A2", 1)
   @@ "SKU010" :> Item("Fabrikam Milk (1L)", 20, "Dairy", "B1", 0)
   @@ "SKU011" :> Item("Contoso Yogurt", 18, "Dairy", "B1", 1)
   @@ "SKU012" :> Item("Adventure Cheese", 15, "Dairy", "B2", 0)
   @@ "SKU013" :> Item("Northwind Butter", 12, "Dairy", "B2", 1)
   @@ "SKU020" :> Item("Northwind Cola (Can)", 48, "Drinks", "C1", 0)
   @@ "SKU021" :> Item("Adventure Water (1L)", 36, "Drinks", "C1", 1)
   @@ "SKU022" :> Item("Fabrikam Juice (2L)", 15, "Drinks", "C2", 0)
   @@ "SKU023" :> Item("Contoso Energy Drink", 24, "Drinks", "C2", 1)
   @@ "SKU030" :> Item("Adatum Apples (Bag)", 20, "Produce", "P1", 0)
   @@ "SKU031" :> Item("Fabrikam Bananas", 25, "Produce", "P1", 1)
   @@ "SKU032" :> Item("Contoso Oranges (Net)", 15, "Produce", "P2", 0)
   @@ "SKU033" :> Item("Northwind Carrots", 18, "Produce", "P2", 1)
   @@ "SKU040" :> Item("Woodgrove Cleaning Spray", 14, "Household", "H1", 0)
   @@ "SKU041" :> Item("Adventure Paper Towels", 22, "Household", "H1", 1)
   @@ "SKU042" :> Item("Contoso Dish Soap", 16, "Household", "H2", 0)
   @@ "SKU043" :> Item("Fabrikam Laundry Det.", 10, "Household", "H2", 1) )

\* The layout every shelf but the five below starts with: two items a and b.
Grid(a, b, bottom) ==
    << <<a, a, b>>, <<a, b, b>>, <<a, b, None>>, bottom >>

InitialShelfLayouts ==
    ( "A1" :> << <<"SKU001", "SKU001", "SKU002">>,
                 <<"SKU001", "SKU002", "SKU002">>,
                 <<"SKU001", "SKU002", None>>,
                 <<None, None, None>> >>
   @@ "A2" :> << <<"SKU003", "SKU003", "SKU004">>,
                 <<"SKU003", "SKU004", "SKU004">>,
                 <<"SKU004", None, None>>,
                 <<None, None, None>> >>
   @@ "B1" :> Grid("SKU010", "SKU011", <<"SKU010", None, None>>)
   @@ "B2" :> Grid("SKU012", "SKU013", <<None, None, None>>)
   @@ "C1" :> Grid("SKU020", "SKU021", <<"SKU020", "SKU021", None>>)
   @@ "C2" :> Grid("SKU022", "SKU023", <<None, None, None>>)
   @@ "C3" :> Grid("SKU022", "SKU023", <<None, None, None>>)
   @@ "P1" :> Grid("SKU030", "SKU031", <<None, None, None>>)
   @@ "P2" :> Grid("SKU032", "SKU033", <<None, None, None>>)
   @@ "H1" :> Grid("SKU040", "SKU041", <<"SKU040", None, None>>)
   @@ "H2" :> Grid("SKU042", "SKU043", <<"SKU042", None, None>>) )

\* Keys of `shelf_layouts` in insertion order.
ShelfKeys == << "A1", "A2", "B1", "B2", "C1", "C2", "C3", "P1", "P2", "H1", "H2" >>

-----------------------------------------------------------------------------
(* Arguments the tool functions are called with *)

\* SKU005 is the unknown item of main.py's example button; "" is the empty
\* image_data.
ItemIdInputs == {"SKU001", "SKU003", "SKU005", ""}

ShelfIdInputs == {"A2", "Z9"}

\* Shelves whose layout is asked for: H1 holds names longer than a cell.
LayoutShelfInputs == {"A1", "A2", "H1", "Z9"}

ShelfIndexInputs == {-1, 0, 4}

PositionIndexInputs == {-1, 2, 3}

QuantityInputs == {-1, 0, 5}

QuantityChangeInputs == {-20, -3, 0, 5}

DamagedQuantityInputs == {0, 3, 20}

CategoryInputs == {None, "Dairy"}

MinStockLevelInputs == {5, 9}

\* "REQ" + random.randint(1000, 9999): the two ends of the range.
RequestIdInputs == {"REQ1000", "REQ9999"}

NotesInputs == {None, "dented"}

-----------------------------------------------------------------------------
(* The tool functions, as functions of the tables they read.  Each returns  *)
(* the tables it leaves behind and the object it returns.                   *)

Outcome(inv, sh, req, res) ==
    [inventory |-> inv, shelf_layouts |-> sh, storage_requests |-> req, result |-> res]

check_item_stock(inv, sh, req, item_id) ==
    IF item_id \in DOMAIN inv
    THEN Outcome(inv, sh, req,
            [item_id |-> item_id, name |-> inv[item_id].name, stock |-> inv[item_id].stock])
    ELSE Outcome(inv, sh, req, [error |-> "Item ID " \o item_id \o " not found."])

find_item_location(inv, sh, req, item_id) ==
    IF item_id \in DOMAIN inv /\ inv[item_id].location_id # ""
    THEN Outcome(inv, sh, req,
            [item_id |-> item_id, name |-> inv[item_id].name,
             location_id |-> inv[item_id].location_id,
             position |-> inv[item_id].position])
    ELSE IF item_id \in DOMAIN inv
    THEN Outcome(inv, sh, req,
            [error |-> "Location for Item ID " \o item_id \o " not defined."])
    ELSE Outcome(inv, sh, req, [error |-> "Item ID " \o item_id \o " not found."])

\* text[:20].ljust(20): the first twenty characters, padded with spaces.
Ljust20(text) == SubSeq(text \o "                    ", 1, 20)

\* One cell of the rendered table: the item's name, the raw id of an item the
\* inventory does not know, or "Empty", each twenty characters wide.
LayoutCell(inv, slot) ==
    IF slot # None /\ slot \in DOMAIN inv THEN Ljust20(inv[slot].name)
    ELSE IF slot # None THEN Ljust20(slot)
    ELSE Ljust20("Empty")

\* The rows of the table ("| Shelf i | cell | cell | cell |"), as cells.
LayoutRows(inv, layout) ==
    [i \in 1..Len(layout) |-> [p \in 1..Len(layout[i]) |-> LayoutCell(inv, layout[i][p])]]

\* get_shelf_layout rendering the fixture's layout instead of the current one.
get_shelf_layout_stale(inv, sh, req, shelf_id) ==
    IF shelf_id \in DOMAIN sh
    THEN Outcome(inv, sh, req,
            [shelf_id |-> shelf_id,
             layout_visual |-> LayoutRows(inv, InitialShelfLayouts[shelf_id])])
    ELSE Outcome(inv, sh, req, [error |-> "Shelf ID " \o shelf_id \o " not found."])

get_shelf_layout(inv, sh, req, shelf_id) ==
    IF shelf_id \in DOMAIN sh
    THEN Outcome(inv, sh, req,
            [shelf_id |-> shelf_id,
             layout_visual |-> LayoutRows(inv, sh[shelf_id])])
    ELSE Outcome(inv, sh, req, [error |-> "Shelf ID " \o shelf_id \o " not found."])

\* request_item_from_storage without the shelf check of lines 174-177.
request_item_from_storage_noshelfcheck(inv, sh, req, item_id, quantity, target_location_id, request_id) ==
    IF item_id \notin DOMAIN inv
    THEN Outcome(inv, sh, req,
            [error |-> "Item ID " \o item_id \o " not found in inventory system."])
    ELSE IF quantity <= 0
    THEN Outcome(inv, sh, req, [error |-> "Quantity must be positive."])
    ELSE Outcome(inv, sh,
            (request_id :> [item_id |-> item_id, quantity |-> quantity,
                            target_location |-> target_location_id, status |-> "Pending"])
              @@ req,
            [request_id |-> request_id, status |-> "Pending",
             message |-> "Request " \o request_id \o " created for " \o ToString(quantity)
                         \o " of " \o inv[item_id].name \o " to shelf "
                         \o target_location_id \o "."])

request_item_from_storage(inv, sh, req, item_id, quantity, target_location_id, request_id) ==
    IF item_id \notin DOMAIN inv
    THEN Outcome(inv, sh, req,
            [error |-> "Item ID " \o item_id \o " not found in inventory system."])
    ELSE IF target_location_id \notin DOMAIN sh
    THEN Outcome(inv, sh, req,
            [error |-> "Target Shelf ID " \o target_location_id \o " does not exist."])
    ELSE IF quantity <= 0
    THEN Outcome(inv, sh, req, [error |-> "Quantity must be positive."])
    ELSE Outcome(inv, sh,
            (request_id :> [item_id |-> item_id, quantity |-> quantity,
                            target_location |-> target_location_id, status |-> "Pending"])
              @@ req,
            [request_id |-> request_id, status |-> "Pending",
             message |-> "Request " \o request_id \o " created for " \o ToString(quantity)
                         \o " of " \o inv[item_id].name \o " to shelf "
                         \o target_location_id \o "."])

\* check_delivery_status without the elif branch of lines 200-201.
check_delivery_status_stalling(inv, sh, req, request_id, advance) ==
    IF request_id \in DOMAIN req
    THEN LET status == req[request_id].status
             new == IF status = "Pending" /\ advance THEN "In Transit" ELSE status
             req2 == [req EXCEPT ![request_id].status = new]
         IN  Outcome(inv, sh, req2,
                [request_id |-> request_id, status |-> new, details |-> req2[request_id]])
    ELSE Outcome(inv, sh, req, [error |-> "Request ID " \o request_id \o " not found."])

\* check_delivery_status that books the delivered quantity into the stock.
check_delivery_status_receiving(inv, sh, req, request_id, advance) ==
    IF request_id \in DOMAIN req
    THEN LET status == req[request_id].status
             new == IF status = "Pending" /\ advance THEN "In Transit"
                    ELSE IF status = "In Transit" /\ advance THEN "Delivered"
                    ELSE status
             req2 == [req EXCEPT ![request_id].status = new]
             inv2 == IF new = "Delivered" /\ status # "Delivered"
                     THEN [inv EXCEPT ![req[request_id].item_id].stock =
                                          @ + req[request_id].quantity]
                     ELSE inv
         IN  Outcome(inv2, sh, req2,
                [request_id |-> request_id, status |-> new, details |-> req2[request_id]])
    ELSE Outcome(inv, sh, req, [error |-> "Request ID " \o request_id \o " not found."])

\* `advance` is the outcome of the one random.random() comparison the call makes.
check_delivery_status(inv, sh, req, request_id, advance) ==
    IF request_id \in DOMAIN req
    THEN LET status == req[request_id].status
             new == IF status = "Pending" /\ advance THEN "In Transit"
                    ELSE IF status = "In Transit" /\ advance THEN "Delivered"
                    ELSE status
             req2 == [req EXCEPT ![request_id].status = new]
         IN  Outcome(inv, sh, req2,
                [request_id |-> request_id, status |-> new, details |-> req2[request_id]])
    ELSE Outcome(inv, sh, req, [error |-> "Request ID " \o request_id \o " not found."])

\* get_items_needing_restock with <= for the < of line 218.
get_items_needing_restock_atmost(inv, sh, req, category, min_stock_level) ==
    LET Low(item_id) ==
            /\ inv[item_id].stock <= min_stock_level
            /\ (category = None \/ inv[item_id].category = category)
        keys == SelectSeq(InventoryKeys, Low)
        low_stock_items ==
            [k \in 1..Len(keys) |->
                [item_id |-> keys[k], name |-> inv[keys[k]].name,
                 current_stock |-> inv[keys[k]].stock,
                 location_id |-> inv[keys[k]].location_id]]
    IN  Outcome(inv, sh, req,
            [low_stock_items |-> low_stock_items, count |-> Len(low_stock_items)])

get_items_needing_restock(inv, sh, req, category, min_stock_level) ==
    LET Low(item_id) ==
            /\ inv[item_id].stock < min_stock_level
            /\ (category = None \/ inv[item_id].category = category)
        keys == SelectSeq(InventoryKeys, Low)
        low_stock_items ==
            [k \in 1..Len(keys) |->
                [item_id |-> keys[k], name |-> inv[keys[k]].name,
                 current_stock |-> inv[keys[k]].stock,
                 location_id |-> inv[keys[k]].location_id]]
    IN  Outcome(inv, sh, req,
            [low_stock_items |-> low_stock_items, count |-> Len(low_stock_items)])

\* update_inventory_count without line 241 (the clamp at 0).
update_inventory_count_noclamp(inv, sh, req, item_id, quantity_change, reason) ==
    IF item_id \in DOMAIN inv
    THEN LET original_stock == inv[item_id].stock
             stock == original_stock + quantity_change
             inv2 == [inv EXCEPT ![item_id].stock = stock]
         IN  Outcome(inv2, sh, req,
                [item_id |-> item_id, name |-> inv[item_id].name,
                 previous_stock |-> original_stock, new_stock |-> stock,
                 change |-> quantity_change, reason |-> reason])
    ELSE Outcome(inv, sh, req, [error |-> "Item ID " \o item_id \o " not found."])

update_inventory_count(inv, sh, req, item_id, quantity_change, reason) ==
    IF item_id \in DOMAIN inv
    THEN LET original_stock == inv[item_id].stock
             added == original_stock + quantity_change
             stock == IF added < 0 THEN 0 ELSE added
             inv2 == [inv EXCEPT ![item_id].stock = stock]
         IN  Outcome(inv2, sh, req,
                [item_id |-> item_id, name |-> inv[item_id].name,
                 previous_stock |-> original_stock, new_stock |-> stock,
                 change |-> quantity_change, reason |-> reason])
    ELSE Outcome(inv, sh, req, [error |-> "Item ID " \o item_id \o " not found."])

\* "{shelf_id}-S{shelf_index+1}-P{position_index+1}"
SlotLabel(shelf_id, shelf_index, position_index) ==
    shelf_id \o "-S" \o ToString(shelf_index + 1) \o "-P" \o ToString(position_index + 1)

\* RestockSlot with the item appended to the row for the slot write of line 285.
RestockSlot_appending(inv, sh, req, item_id, shelf_id, a, b, shelf_index, position_index, quantity) ==
    LET sh2 == [sh EXCEPT ![shelf_id][a + 1] = Append(@, item_id)]
        upd == update_inventory_count(inv, sh2, req, item_id, quantity,
                    "Restocked on " \o SlotLabel(shelf_id, shelf_index, position_index))
    IN  Outcome(upd.inventory, upd.shelf_layouts, upd.storage_requests,
            [message |-> "Successfully restocked " \o ToString(quantity) \o " of "
                         \o inv[item_id].name \o " (" \o item_id \o ") at "
                         \o SlotLabel(shelf_id, shelf_index, position_index) \o ".",
             inventory_update |-> upd.result])

\* RestockSlot that also records the target shelf as the item's location.
RestockSlot_relocating(inv, sh, req, item_id, shelf_id, a, b, shelf_index, position_index, quantity) ==
    LET sh2 == [sh EXCEPT ![shelf_id][a + 1][b + 1] = item_id]
        upd == update_inventory_count([inv EXCEPT ![item_id].location_id = shelf_id],
                    sh2, req, item_id, quantity,
                    "Restocked on " \o SlotLabel(shelf_id, shelf_index, position_index))
    IN  Outcome(upd.inventory, upd.shelf_layouts, upd.storage_requests,
            [message |-> "Successfully restocked " \o ToString(quantity) \o " of "
                         \o inv[item_id].name \o " (" \o item_id \o ") at "
                         \o SlotLabel(shelf_id, shelf_index, position_index) \o ".",
             inventory_update |-> upd.result])

\* The slot write of line 285 followed by the inventory update of line 286,
\* with the slot addressed as [a][b] (0-based).
RestockSlot(inv, sh, req, item_id, shelf_id, a, b, shelf_index, position_index, quantity) ==
    LET sh2 == [sh EXCEPT ![shelf_id][a + 1][b + 1] = item_id]
        upd == update_inventory_count(inv, sh2, req, item_id, quantity,
                    "Restocked on " \o SlotLabel(shelf_id, shelf_index, position_index))
    IN  IF "error" \in DOMAIN upd.result
        THEN Outcome(upd.inventory, upd.shelf_layouts, upd.storage_requests,
                [error |-> "Failed to update inventory: " \o upd.result.error,
                 layout_updated |-> TRUE])
        ELSE Outcome(upd.inventory, upd.shelf_layouts, upd.storage_requests,
                [message |-> "Successfully restocked " \o ToString(quantity) \o " of "
                             \o inv[item_id].name \o " (" \o item_id \o ") at "
                             \o SlotLabel(shelf_id, shelf_index, position_index) \o ".",
                 inventory_update |-> upd.result])

\* mark_item_restocked without the item check of lines 264-267.
mark_item_restocked_noitemcheck(inv, sh, req, item_id, shelf_id, shelf_index, position_index, quantity) ==
    IF shelf_id \notin DOMAIN sh
    THEN Outcome(inv, sh, req, [error |-> "Shelf ID " \o shelf_id \o " not found."])
    ELSE IF ~(0 <= shelf_index /\ shelf_index < Len(sh[shelf_id]))
    THEN Outcome(inv, sh, req, [error |-> "Invalid shelf index."])
    ELSE IF ~(0 <= position_index /\ position_index < Len(sh[shelf_id][shelf_index + 1]))
    THEN Outcome(inv, sh, req, [error |-> "Invalid position index."])
    ELSE IF quantity <= 0
    THEN Outcome(inv, sh, req, [error |-> "Quantity must be positive."])
    ELSE RestockSlot(inv, sh, req, item_id, shelf_id, shelf_index, position_index,
                     shelf_index, position_index, quantity)

\* mark_item_restocked without the quantity check of lines 280-283.
mark_item_restocked_noquantitycheck(inv, sh, req, item_id, shelf_id, shelf_index, position_index, quantity) ==
    IF item_id \notin DOMAIN inv
    THEN Outcome(inv, sh, req, [error |-> "Item ID " \o item_id \o " not found."])
    ELSE IF shelf_id \notin DOMAIN sh
    THEN Outcome(inv, sh, req, [error |-> "Shelf ID " \o shelf_id \o " not found."])
    ELSE IF ~(0 <= shelf_index /\ shelf_index < Len(sh[shelf_id]))
    THEN Outcome(inv, sh, req, [error |-> "Invalid shelf index."])
    ELSE IF ~(0 <= position_index /\ position_index < Len(sh[shelf_id][shelf_index + 1]))
    THEN Outcome(inv, sh, req, [error |-> "Invalid position index."])
    ELSE RestockSlot(inv, sh, req, item_id, shelf_id, shelf_index, position_index,
                     shelf_index, position_index, quantity)

\* mark_item_restocked writing the slot [position_index][shelf_index] in line 285.
mark_item_restocked_transposed(inv, sh, req, item_id, shelf_id, shelf_index, position_index, quantity) ==
    IF item_id \notin DOMAIN inv
    THEN Outcome(inv, sh, req, [error |-> "Item ID " \o item_id \o " not found."])
    ELSE IF shelf_id \notin DOMAIN sh
    THEN Outcome(inv, sh, req, [error |-> "Shelf ID " \o shelf_id \o " not found."])
    ELSE IF ~(0 <= shelf_index /\ shelf_index < Len(sh[shelf_id]))
    THEN Outcome(inv, sh, req, [error |-> "Invalid shelf index."])
    ELSE IF ~(0 <= position_index /\ position_index < Len(sh[shelf_id][shelf_index + 1]))
    THEN Outcome(inv, sh, req, [error |-> "Invalid position index."])
    ELSE IF quantity <= 0
    THEN Outcome(inv, sh, req, [error |-> "Quantity must be positive."])
    ELSE RestockSlot(inv, sh, req, item_id, shelf_id, position_index, shelf_index,
                     shelf_index, position_index, quantity)

mark_item_restocked(inv, sh, req, item_id, shelf_id, shelf_index, position_index, quantity) ==
    IF item_id \notin DOMAIN inv
    THEN Outcome(inv, sh, req, [error |-> "Item ID " \o item_id \o " not found."])
    ELSE IF shelf_id \notin DOMAIN sh
    THEN Outcome(inv, sh, req, [error |-> "Shelf ID " \o shelf_id \o " not found."])
    ELSE IF ~(0 <= shelf_index /\ shelf_index < Len(sh[shelf_id]))
    THEN Outcome(inv, sh, req,
            [error |-> "Invalid shelf index " \o ToString(shelf_index)
                       \o " for Shelf " \o shelf_id \o "."])
    ELSE IF ~(0 <= position_index /\ position_index < Len(sh[shelf_id][shelf_index + 1]))
    THEN Outcome(inv, sh, req,
            [error |-> "Invalid position index " \o ToString(position_index)
                       \o " for Shelf " \o shelf_id \o ", Shelf "
                       \o ToString(shelf_index + 1) \o "."])
    ELSE IF quantity <= 0
    THEN Outcome(inv, sh, req, [error |-> "Quantity must be positive."])
    ELSE RestockSlot(inv, sh, req, item_id, shelf_id, shelf_index, position_index,
                     shelf_index, position_index, quantity)

\* log_damaged_item passing the quantity to the update without the minus sign
\* of line 312.
log_damaged_item_adding(inv, sh, req, item_id, quantity, notes) ==
    IF quantity <= 0
    THEN Outcome(inv, sh, req, [error |-> "Quantity must be positive."])
    ELSE LET upd == update_inventory_count(inv, sh, req, item_id, quantity,
                        "Damaged (" \o (IF notes # None THEN notes ELSE "No details") \o ")")
         IN  IF "error" \in DOMAIN upd.result
             THEN Outcome(upd.inventory, upd.shelf_layouts, upd.storage_requests,
                    [error |-> "Failed to log damage: " \o upd.result.error])
             ELSE Outcome(upd.inventory, upd.shelf_layouts, upd.storage_requests,
                    [message |-> "Successfully logged " \o ToString(quantity)
                                 \o " damaged units of " \o inv[item_id].name
                                 \o " (" \o item_id \o ").",
                     inventory_update |-> upd.result])

log_damaged_item(inv, sh, req, item_id, quantity, notes) ==
    IF quantity <= 0
    THEN Outcome(inv, sh, req, [error |-> "Quantity must be positive."])
    ELSE LET upd == update_inventory_count(inv, sh, req, item_id, 0 - quantity,
                        "Damaged (" \o (IF notes # None THEN notes ELSE "No details") \o ")")
         IN  IF "error" \in DOMAIN upd.result
             THEN Outcome(upd.inventory, upd.shelf_layouts, upd.storage_requests,
                    [error |-> "Failed to log damage: " \o upd.result.error])
             ELSE Outcome(upd.inventory, upd.shelf_layouts, upd.storage_requests,
                    [message |-> "Successfully logged " \o ToString(quantity)
                                 \o " damaged units of " \o inv[item_id].name
                                 \o " (" \o item_id \o ").",
                     inventory_update |-> upd.result])

\* get_store_layout_overview without the last key of the table.
get_store_layout_overview_short(inv, sh, req) ==
    LET Known(shelf_id) == shelf_id \in DOMAIN sh
        shelf_ids == SelectSeq(ShelfKeys, Known)
        short == SubSeq(shelf_ids, 1, Len(shelf_ids) - 1)
    IN  Outcome(inv, sh, req, [shelf_ids |-> short, count |-> Len(short)])

\* list(shelf_layouts.keys()): the keys of the table, in the fixture's order.
get_store_layout_overview(inv, sh, req) ==
    LET Known(shelf_id) == shelf_id \in DOMAIN sh
        shelf_ids == SelectSeq(ShelfKeys, Known)
    IN  Outcome(inv, sh, req, [shelf_ids |-> shelf_ids, count |-> Len(shelf_ids)])

\* list.index(x) on one row: the 0-based position of the first x, -1 for ValueError.
RowIndex(row, x) ==
    IF \E p \in 1..Len(row) : row[p] = x
    THEN (CHOOSE p \in 1..Len(row) : row[p] = x /\ \A q \in 1..(p - 1) : row[q] # x) - 1
    ELSE -1

\* The slot search stopping at the first level that holds the item or an
\* empty slot.
RECURSIVE FindSlot_firstlevel(_, _, _, _, _)
FindSlot_firstlevel(layout, item_id, r_idx, shelf_idx, pos_idx) ==
    IF r_idx >= Len(layout) THEN <<shelf_idx, pos_idx>>
    ELSE LET shelf == layout[r_idx + 1]
             p_item == RowIndex(shelf, item_id)
             p_none == RowIndex(shelf, None)
         IN  IF p_item # -1 THEN <<r_idx, p_item>>
             ELSE IF p_none # -1 THEN <<r_idx, p_none>>
             ELSE FindSlot_firstlevel(layout, item_id, r_idx + 1, shelf_idx, pos_idx)

\* The loop of identify_and_restock_item_from_image over rows r_idx.. of the
\* shelf, entered with (shelf_idx, pos_idx) as found so far.
RECURSIVE FindSlot(_, _, _, _, _)
FindSlot(layout, item_id, r_idx, shelf_idx, pos_idx) ==
    IF r_idx >= Len(layout) THEN <<shelf_idx, pos_idx>>
    ELSE LET shelf == layout[r_idx + 1]
             p_item == RowIndex(shelf, item_id)
             p_none == RowIndex(shelf, None)
         IN  IF p_item # -1 THEN <<r_idx, p_item>>
             ELSE IF shelf_idx = -1 /\ p_none # -1
                  THEN FindSlot(layout, item_id, r_idx + 1, r_idx, p_none)
                  ELSE FindSlot(layout, item_id, r_idx + 1, shelf_idx, pos_idx)

identify_and_restock_item_from_image(inv, sh, req, image_data, quantity) ==
    LET item_id == image_data
        loc == find_item_location(inv, sh, req, item_id)
    IN  IF item_id = ""
        THEN Outcome(inv, sh, req,
                [error |-> "Could not identify item from image data (simulation)."])
        ELSE IF "error" \in DOMAIN loc.result
        THEN Outcome(inv, sh, req,
                [error |-> "Could not find location for identified item " \o item_id
                           \o ": " \o loc.result.error])
        ELSE LET shelf_id == loc.result.location_id
                 slot == IF shelf_id \in DOMAIN sh
                         THEN FindSlot(sh[shelf_id], item_id, 0, -1, -1)
                         ELSE <<-1, -1>>
             IN  IF slot[1] = -1 \/ slot[2] = -1
                 THEN Outcome(inv, sh, req,
                        [error |-> "Could not determine specific shelf/position for item "
                                   \o item_id \o " on shelf " \o shelf_id
                                   \o ". Layout might need update."])
                 ELSE LET rs == mark_item_restocked(inv, sh, req, item_id, shelf_id,
                                                    slot[1], slot[2], quantity)
                      IN  IF "error" \in DOMAIN rs.result
                          THEN Outcome(rs.inventory, rs.shelf_layouts, rs.storage_requests,
                                [error |-> "Failed to restock after identification: "
                                           \o rs.result.error])
                          ELSE Outcome(rs.inventory, rs.shelf_layouts, rs.storage_requests,
                                [message |-> "Simulated vision identification and restocking complete for "
                                             \o item_id \o ".",
                                 restock_details |-> rs.result])

-----------------------------------------------------------------------------
(* The store as a state machine: one action per tool function *)

StoreInit ==
    /\ inventory = InitialInventory
    /\ shelf_layouts = InitialShelfLayouts
    /\ storage_requests = <<>>
    /\ call = [op |-> "none"]
    /\ result = [none |-> TRUE]
    /\ calls = 0

\* The tool call `c` returned outcome `o`.
Returns(c, o) ==
    /\ calls < MaxCalls
    /\ calls' = calls + 1
    /\ call' = c
    /\ inventory' = o.inventory
    /\ shelf_layouts' = o.shelf_layouts
    /\ storage_requests' = o.storage_requests
    /\ result' = o.result
    /\ UNCHANGED chatVars
    /\ UNCHANGED <<mainVars, turn_thread>>

CheckItemStock ==
    \E item_id \in ItemIdInputs :
        Returns([op |-> "check_item_stock", item_id |-> item_id],
                check_item_stock(inventory, shelf_layouts, storage_requests, item_id))

FindItemLocation ==
    \E item_id \in ItemIdInputs :
        Returns([op |-> "find_item_location", item_id |-> item_id],
                find_item_location(inventory, shelf_layouts, storage_requests, item_id))

GetShelfLayout ==
    \E shelf_id \in LayoutShelfInputs :
        Returns([op |-> "get_shelf_layout", shelf_id |-> shelf_id],
                get_shelf_layout(inventory, shelf_layouts, storage_requests, shelf_id))

RequestItemFromStorage ==
    \E item_id \in ItemIdInputs, quantity \in QuantityInputs,
       target_location_id \in ShelfIdInputs, request_id \in RequestIdInputs :
        Returns([op |-> "request_item_from_storage", item_id |-> item_id,
                 quantity |-> quantity, target_location_id |-> target_location_id],
                request_item_from_storage(inventory, shelf_layouts, storage_requests,
                    item_id, quantity, target_location_id, request_id))

CheckDeliveryStatus ==
    \E request_id \in RequestIdInputs, advance \in BOOLEAN :
        Returns([op |-> "check_delivery_status", request_id |-> request_id],
                check_delivery_status(inventory, shelf_layouts, storage_requests,
                    request_id, advance))

GetItemsNeedingRestock ==
    \E category \in CategoryInputs, min_stock_level \in MinStockLevelInputs :
        Returns([op |-> "get_items_needing_restock", category |-> category,
                 min_stock_level |-> min_stock_level],
                get_items_needing_restock(inventory, shelf_layouts, storage_requests,
                    category, min_stock_level))

UpdateInventoryCount ==
    \E item_id \in ItemIdInputs, quantity_change \in QuantityChangeInputs :
        Returns([op |-> "update_inventory_count", item_id |-> item_id,
                 quantity_change |-> quantity_change],
                update_inventory_count(inventory, shelf_layouts, storage_requests,
                    item_id, quantity_change, "Restock"))

MarkItemRestocked ==
    \E item_id \in ItemIdInputs, shelf_id \in ShelfIdInputs,
       shelf_index \in ShelfIndexInputs, position_index \in PositionIndexInputs,
       quantity \in QuantityInputs :
        Returns([op |-> "mark_item_restocked", item_id |-> item_id, shelf_id |-> shelf_id,
                 shelf_index |-> shelf_index, position_index |-> position_index,
                 quantity |-> quantity],
                mark_item_restocked(inventory, shelf_layouts, storage_requests,
                    item_id, shelf_id, shelf_index, position_index, quantity))

LogDamagedItem ==
    \E item_id \in ItemIdInputs, quantity \in DamagedQuantityInputs, notes \in NotesInputs :
        Returns([op |-> "log_damaged_item", item_id |-> item_id, quantity |-> quantity,
                 notes |-> notes],
                log_damaged_item(inventory, shelf_layouts, storage_requests,
                    item_id, quantity, notes))

GetStoreLayoutOverview ==
    Returns([op |-> "get_store_layout_overview"],
            get_store_layout_overview(inventory, shelf_layouts, storage_requests))

IdentifyAndRestockItemFromImage ==
    \E image_data \in ItemIdInputs, quantity \in QuantityInputs :
        Returns([op |-> "identify_and_restock_item_from_image", item_id |-> image_data,
                 quantity |-> quantity],
                identify_and_restock_item_from_image(inventory, shelf_layouts,
                    storage_requests, image_data, quantity))

StoreNext ==
    \/ CheckItemStock
    \/ FindItemLocation
    \/ GetShelfLayout
    \/ RequestItemFromStorage
    \/ CheckDeliveryStatus
    \/ GetItemsNeedingRestock
    \/ UpdateInventoryCount
    \/ MarkItemRestocked
    \/ LogDamagedItem
    \/ GetStoreLayoutOverview
    \/ IdentifyAndRestockItemFromImage

-----------------------------------------------------------------------------
(* The transcript: ChatMessage, chat_ui.py lines 251-262 *)

\* The metadata of a ChatMessage built without one, and the {} that
\* convert_chatmessage_to_dict puts in its place.  Both are falsy.
NoMetadata == [py |-> "None"]

EmptyMetadata == [py |-> "{}"]

Truthy(metadata) == metadata \notin {NoMetadata, EmptyMetadata}

ChatMessage(role, content, metadata) ==
    [role |-> role, content |-> content, metadata |-> metadata]

convert_dict_to_chatmessage(msg) ==
    ChatMessage(msg.role, msg.content, msg.metadata)

convert_chatmessage_to_dict(msg) ==
    [role |-> msg.role, content |-> msg.content,
     metadata |-> IF Truthy(msg.metadata) THEN msg.metadata ELSE EmptyMetadata]

\* [convert_chatmessage_to_dict(m) for m in conversation]
Dicts(conv) == [i \in 1..Len(conv) |-> convert_chatmessage_to_dict(conv[i])]

\* [convert_dict_to_chatmessage(m) for m in history]
ChatMessages(history) == [i \in 1..Len(history) |-> convert_dict_to_chatmessage(history[i])]

\* role == "assistant" and not metadata
IsPlainAssistant(msg) == msg.role = "assistant" /\ ~Truthy(msg.metadata)

LastIndex(S) == CHOOSE i \in S : \A j \in S : j <= i

RECURSIVE Concat(_)
Concat(strings) ==
    IF Len(strings) = 0 THEN "" ELSE Head(strings) \o Concat(Tail(strings))

\* s[:n] followed by "..." when s is longer than n
Truncated(s, n) == IF Len(s) > n THEN SubSeq(s, 1, n) \o "..." ELSE s

\* del d[k] that leaves the key in place.
Without_keeping(d, k) == d

\* Without d's key k (del d[k]).
Without(d, k) == [x \in DOMAIN d \ {k} |-> d[x]]

-----------------------------------------------------------------------------
(* Stream events, as the fields the code reads *)

FunctionDelta(id, name, arguments) ==
    [id |-> id, type |-> "function", function |-> [name |-> name, arguments |-> arguments]]

BingDelta(id, requesturl) ==
    [id |-> id, type |-> "bing_grounding", bing_grounding |-> [requesturl |-> requesturl]]

RunStepDelta(tool_calls) ==
    [event_type |-> "thread.run.step.delta", type |-> "tool_calls", tool_calls |-> tool_calls]

FunctionCall(id, output) ==
    [id |-> id, type |-> "function", function |-> [output |-> output]]

BingCall(id) == [id |-> id, type |-> "bing_grounding"]

RunStep(type, status, tool_calls, last_error) ==
    [event_type |-> "run_step", type |-> type, status |-> status,
     tool_calls |-> tool_calls, last_error |-> last_error]

MessageDelta(id, content) ==
    [event_type |-> "thread.message.delta", id |-> id, content |-> content]

ThreadMessage(id, role, status, content) ==
    [event_type |-> "thread.message", id |-> id, role |-> role, status |-> status,
     content |-> content]

ThreadRun(status) == [event_type |-> "thread_run", status |-> status]

\* Outputs of a completed function call.
OutError == "{\"error\": \"Item ID SKU005 not found.\"}"
OutLayout == "{\"shelf_id\": \"A1\", \"layout_visual\": \"| Shelf 1 |\"}"
OutNotJson == "Traceback: tool crashed"
OutEmpty == ""
OutStock == "{\"item_id\": \"SKU001\", \"name\": \"Contoso Cereal\", \"stock\": 15}"

\* json.loads on the outputs above: the object, or JSONDecodeError.
JsonLoads(output_str) ==
    CASE output_str = OutError -> [ok |-> TRUE, value |-> [error |-> "Item ID SKU005 not found."]]
      [] output_str = OutLayout ->
            [ok |-> TRUE, value |-> [shelf_id |-> "A1", layout_visual |-> "| Shelf 1 |"]]
      [] output_str = OutStock ->
            [ok |-> TRUE, value |-> [item_id |-> "SKU001", name |-> "Contoso Cereal",
                                     stock |-> 15]]
      [] OTHER -> [ok |-> FALSE]

StreamEvents ==
    { RunStepDelta(<<FunctionDelta("call_1", "check_item_stock", "{\"item_id\":")>>),
      RunStepDelta(<<FunctionDelta("call_1", "check_item_stock", "{}"),
                     FunctionDelta("call_2", "get_shelf_layout", "{}")>>),
      RunStepDelta(<<FunctionDelta("call_2", "restock_robot", None)>>),
      RunStepDelta(<<BingDelta("call_3", "https://www.bing.com/search?q=milk")>>),
      RunStep("tool_calls", "completed", <<FunctionCall("call_1", OutNotJson)>>, None),
      RunStep("tool_calls", "completed", <<FunctionCall("call_1", OutEmpty)>>, None),
      RunStep("tool_calls", "completed", <<FunctionCall("call_1", OutStock)>>, None),
      RunStep("tool_calls", "completed",
              <<FunctionCall("call_1", OutError), FunctionCall("call_2", OutLayout)>>, None),
      RunStep("tool_calls", "completed", <<BingCall("call_3")>>, None),
      RunStep("tool_calls", "failed",
              <<FunctionCall("call_1", OutEmpty), BingCall("call_3")>>, "timed out"),
      RunStep("tool_calls", "failed", <<FunctionCall("call_2", OutEmpty)>>, None),
      MessageDelta("msg_1", <<"Hel">>),
      MessageDelta("msg_1", <<"lo wor">>),
      MessageDelta("msg_1", <<"ld">>),
      MessageDelta("msg_2", <<"Shelf ", "A1">>),
      ThreadMessage("msg_1", "assistant", "completed", <<"Hello world">>),
      ThreadRun("failed"),
      ThreadRun("completed") }

UserMessageInputs == {"Check stock for SKU001", "  "}

\* time.time() at a submission.
TimeInputs == {102}

-----------------------------------------------------------------------------
(* create_tool_bubble, chat_ui.py lines 334-389 *)

tool_titles(tool_name) ==
    CASE tool_name = "check_item_stock" -> "Checking Stock"
      [] tool_name = "find_item_location" -> "Finding Location"
      [] tool_name = "get_shelf_layout" -> "Viewing Shelf Layout"
      [] tool_name = "request_item_from_storage" -> "Requesting from Storage"
      [] tool_name = "check_delivery_status" -> "Checking Delivery"
      [] tool_name = "get_items_needing_restock" -> "Finding Low Stock"
      [] tool_name = "update_inventory_count" -> "Updating Inventory"
      [] tool_name = "mark_item_restocked" -> "Marking Restocked"
      [] tool_name = "log_damaged_item" -> "Logging Damage"
      [] tool_name = "get_store_layout_overview" -> "Viewing Store Layout"
      [] tool_name = "identify_and_restock_item_from_image" -> "'Scanning' Item (Simulated)"
      [] tool_name = "bing_grounding" -> "Searching Web Sources"
      [] OTHER -> "Tool " \o tool_name

\* The status icons, by name.
tool_icons_status(status) ==
    CASE status = "pending" -> "(hourglass)"
      [] status = "done" -> "(check)"
      [] status = "error" -> "(cross)"
      [] OTHER -> ""

BubbleId(call_id) == IF call_id # None THEN "tool-" \o call_id ELSE "tool-noid"

\* Indices of the entries of conv that carry bubble identifier bubble_id.
BubbleIndices(conv, bubble_id) ==
    {i \in 1..Len(conv) : Truthy(conv[i].metadata) /\ conv[i].metadata.id = bubble_id}

\* create_tool_bubble without its search for an existing bubble.
create_tool_bubble_appending(conv, tool_name, content, call_id, status) ==
    IF tool_name = None THEN conv
    ELSE Append(conv, ChatMessage("assistant", content,
                        [title |-> tool_icons_status(status) \o " " \o tool_titles(tool_name),
                         id |-> BubbleId(call_id), status |-> status]))

\* create_tool_bubble taking an existing bubble out and putting the updated
\* one at the end.
create_tool_bubble_moving(conv, tool_name, content, call_id, status) ==
    IF tool_name = None THEN conv
    ELSE LET title == tool_icons_status(status) \o " " \o tool_titles(tool_name)
             bubble_id == BubbleId(call_id)
             existing == BubbleIndices(conv, bubble_id)
             bubble == ChatMessage("assistant", content,
                            [title |-> title, id |-> bubble_id, status |-> status])
         IN  IF existing # {}
             THEN [i \in 1..Len(conv) |->
                     IF i < LastIndex(existing) THEN conv[i]
                     ELSE IF i < Len(conv) THEN conv[i + 1]
                     ELSE bubble]
             ELSE Append(conv, bubble)

create_tool_bubble(conv, tool_name, content, call_id, status) ==
    IF tool_name = None THEN conv
    ELSE LET title == tool_icons_status(status) \o " " \o tool_titles(tool_name)
             bubble_id == BubbleId(call_id)
             existing == BubbleIndices(conv, bubble_id)
         IN  IF existing # {}
             THEN [conv EXCEPT ![LastIndex(existing)] =
                        ChatMessage(@.role, content,
                            [@.metadata EXCEPT !.title = title, !.status = status])]
             ELSE Append(conv, ChatMessage("assistant", content,
                                [title |-> title, id |-> bubble_id, status |-> status]))

-----------------------------------------------------------------------------
(* EventHandler, chat_ui.py lines 27-248.  Its create_tool_bubble_fn is     *)
(* never set (lines 394-396), so its tool callbacks only keep its own table *)
(* current_tool_calls; `conversation` is azure_store_chat's list itself.    *)

NewEventHandler ==
    [current_message_id |-> None, accumulated_text |-> "", current_tool_calls |-> <<>>]

Handled(conv, handler) == [conversation |-> conv, event_handler |-> handler]

on_message_delta(delta, conv, handler) ==
    LET started == IF delta.id # handler.current_message_id
                   THEN [handler EXCEPT !.current_message_id = delta.id,
                                        !.accumulated_text = ""]
                   ELSE handler
        partial_text == Concat(delta.content)
        accumulated == [started EXCEPT !.accumulated_text = @ \o partial_text]
        plain == {i \in 1..Len(conv) : IsPlainAssistant(conv[i])}
    IN  IF partial_text = "" THEN Handled(conv, started)
        ELSE IF Len(conv) = 0 THEN Handled(conv, accumulated)
        ELSE IF plain # {}
        THEN Handled([conv EXCEPT ![LastIndex(plain)].content = accumulated.accumulated_text],
                     accumulated)
        ELSE IF conv[Len(conv)].role # "assistant" \/ Truthy(conv[Len(conv)].metadata)
        THEN Handled(Append(conv, ChatMessage("assistant", accumulated.accumulated_text,
                                              NoMetadata)),
                     accumulated)
        ELSE Handled(conv, accumulated)

on_thread_message(message, conv, handler) ==
    IF message.role = "assistant" /\ message.status = "completed"
    THEN LET final_content == Concat(message.content)
             reset == [handler EXCEPT !.current_message_id = None, !.accumulated_text = ""]
             last_msg == conv[Len(conv)]
         IN  IF Len(conv) = 0 THEN Handled(conv, reset)
             ELSE IF IsPlainAssistant(last_msg)
             THEN IF last_msg.content # final_content
                  THEN Handled([conv EXCEPT ![Len(conv)].content = final_content], reset)
                  ELSE Handled(conv, reset)
             ELSE IF final_content # ""
                     /\ (last_msg.role # "assistant" \/ last_msg.content # final_content)
             THEN Handled(Append(conv, ChatMessage("assistant", final_content, NoMetadata)),
                          reset)
             ELSE Handled(conv, reset)
    ELSE Handled(conv, handler)

\* on_thread_run putting the failure of the run into the transcript.
on_thread_run_reporting(run, conv, handler) ==
    IF run.status = "failed"
    THEN Handled(Append(conv, ChatMessage("assistant", "Run failed.", NoMetadata)), handler)
    ELSE Handled(conv, handler)

\* Lines 120-150 print and set span attributes; the transcript is not touched.
on_thread_run(run, conv, handler) == Handled(conv, handler)

\* The loop of on_run_step_delta from the k-th tool call on.
RECURSIVE HandlerStepDeltaCalls(_, _, _)
HandlerStepDeltaCalls(tool_calls, k, table) ==
    IF k > Len(tool_calls) THEN table
    ELSE LET tcall_delta == tool_calls[k]
             call_id == tcall_delta.id
         IN  IF call_id = None \/ tcall_delta.type # "function"
             THEN HandlerStepDeltaCalls(tool_calls, k + 1, table)
             ELSE LET func_delta == tcall_delta.function
                      seen == IF call_id \notin DOMAIN table
                              THEN (call_id :> [name |-> func_delta.name, arguments |-> "",
                                                status |-> "starting"]) @@ table
                              ELSE table
                      added == IF func_delta.arguments \notin {None, ""}
                               THEN [seen EXCEPT ![call_id].arguments = @ \o func_delta.arguments]
                               ELSE seen
                  IN  HandlerStepDeltaCalls(tool_calls, k + 1, added)

on_run_step_delta(delta, conv, handler) ==
    IF delta.type = "tool_calls"
    THEN Handled(conv, [handler EXCEPT !.current_tool_calls =
                            HandlerStepDeltaCalls(delta.tool_calls, 1, @)])
    ELSE Handled(conv, handler)

on_run_step(step, conv, handler) ==
    IF step.type = "tool_calls" /\ Len(step.tool_calls) > 0
    THEN Handled(conv, [handler EXCEPT !.current_tool_calls =
                            [c \in DOMAIN @ \ {step.tool_calls[k].id : k \in 1..Len(step.tool_calls)}
                                |-> @[c]]])
    ELSE Handled(conv, handler)

\* The callback the stream runs on the handler it was given (line 404), before
\* the event reaches the loop of line 406.
HandlerCallback(event, conv, handler) ==
    CASE event.event_type = "thread.message.delta" -> on_message_delta(event, conv, handler)
      [] event.event_type = "thread.message" -> on_thread_message(event, conv, handler)
      [] event.event_type = "thread_run" -> on_thread_run(event, conv, handler)
      [] event.event_type = "thread.run.step.delta" -> on_run_step_delta(event, conv, handler)
      [] event.event_type = "run_step" -> on_run_step(event, conv, handler)
      [] OTHER -> Handled(conv, handler)

-----------------------------------------------------------------------------
(* The event loop of azure_store_chat, chat_ui.py lines 406-526 *)

\* What one event leaves behind; `raised` when its processing raised, which
\* skips the yield of line 522.
Processed(conv, active, raised) ==
    [conversation |-> conv, active_tool_calls |-> active, raised |-> raised]

\* The text after the last "?q=" of a search url, None when it has none.
RECURSIVE QueryFrom(_, _)
QueryFrom(url, k) ==
    IF k < 1 THEN None
    ELSE IF SubSeq(url, k, k + 2) = "?q=" THEN SubSeq(url, k + 3, Len(url))
    ELSE QueryFrom(url, k - 1)

\* Lines 416-442 from the k-th tool call of the delta on.
RECURSIVE StepDeltaCalls(_, _, _, _)
StepDeltaCalls(tool_calls, k, conv, active) ==
    IF k > Len(tool_calls) THEN Processed(conv, active, FALSE)
    ELSE LET tcall == tool_calls[k]
             call_id == tcall.id
         IN  IF tcall.type = "function"
             THEN LET func_name == tcall.function.name
                      new == call_id \notin DOMAIN active
                      conv1 == IF new
                               THEN create_tool_bubble(conv, func_name, "Running...",
                                                       call_id, "pending")
                               ELSE conv
                      active1 == IF new
                                 THEN (call_id :> [name |-> func_name, arguments |-> "",
                                                   status |-> "pending"]) @@ active
                                 ELSE active
                  IN  IF func_name = None \/ call_id = None
                      THEN StepDeltaCalls(tool_calls, k + 1, conv, active)
                      ELSE IF "arguments" \notin DOMAIN tcall.function
                      THEN StepDeltaCalls(tool_calls, k + 1, conv1, active1)
                      ELSE IF tcall.function.arguments = None
                      THEN Processed(conv1, active1, TRUE)      \* str += None: TypeError
                      ELSE StepDeltaCalls(tool_calls, k + 1, conv1,
                                [active1 EXCEPT ![call_id].arguments =
                                                    @ \o tcall.function.arguments])
             ELSE IF tcall.type = "bing_grounding"
             THEN LET query == QueryFrom(tcall.bing_grounding.requesturl,
                                         Len(tcall.bing_grounding.requesturl) - 2)
                  IN  IF query # None
                      THEN StepDeltaCalls(tool_calls, k + 1,
                                create_tool_bubble(conv, "bing_grounding",
                                    "Searching for '" \o query \o "'...", call_id, "pending"),
                                active)
                      ELSE StepDeltaCalls(tool_calls, k + 1, conv, active)
             ELSE StepDeltaCalls(tool_calls, k + 1, conv, active)

\* Lines 458-470: the text shown for a completed function call.
CompletedMessage(func_name, output_str) ==
    LET parsed == JsonLoads(output_str)
    IN  IF ~parsed.ok
        THEN "Completed. Output (non-JSON): " \o Truncated(output_str, OutputLimit)
        ELSE IF func_name = "get_shelf_layout" /\ "layout_visual" \in DOMAIN parsed.value
        THEN parsed.value.layout_visual
        ELSE IF "message" \in DOMAIN parsed.value THEN parsed.value.message
        ELSE IF "error" \in DOMAIN parsed.value THEN "Error: " \o parsed.value.error
        ELSE "Completed. Output: " \o Truncated(output_str, OutputLimit)

\* Lines 480-482 without the error detail.
FailedMessage_nodetail(func_name, last_error) == "Tool call failed: " \o func_name

\* Lines 480-482: the text shown for a failed tool call; last_error is the
\* message of event_data["last_error"], None when the event has none.
FailedMessage(func_name, last_error) ==
    "Tool call failed: " \o func_name
        \o (IF last_error \notin {None, ""} THEN " - " \o last_error ELSE "")

\* Lines 447-489 from the k-th tool call of the step on.
RECURSIVE RunStepCalls(_, _, _, _)
RunStepCalls(step, k, conv, active) ==
    IF k > Len(step.tool_calls) THEN Processed(conv, active, FALSE)
    ELSE LET tcall == step.tool_calls[k]
             call_id == tcall.id
             func_name == IF call_id \in DOMAIN active /\ active[call_id].name \notin {None, ""}
                          THEN active[call_id].name
                          ELSE "unknown_function"
         IN  IF step.status = "completed"
             THEN IF tcall.type = "function" /\ tcall.function.output \notin {None, ""}
                  THEN RunStepCalls(step, k + 1,
                            create_tool_bubble(conv, func_name,
                                CompletedMessage(func_name, tcall.function.output),
                                call_id, "done"),
                            Without(active, call_id))
                  ELSE RunStepCalls(step, k + 1, conv, active)
             ELSE IF step.status = "failed"
             THEN RunStepCalls(step, k + 1,
                        create_tool_bubble(conv, func_name,
                            FailedMessage(func_name, step.last_error), call_id, "error"),
                        Without(active, call_id))
             ELSE RunStepCalls(step, k + 1, conv, active)

\* The body of the loop for one item of the stream, lines 407-520.
ProcessEvent(event, conv, active) ==
    CASE event.event_type = "thread.run.step.delta" ->
            IF event.type = "tool_calls"
            THEN StepDeltaCalls(event.tool_calls, 1, conv, active)
            ELSE Processed(conv, active, FALSE)
      [] event.event_type = "run_step" ->
            IF event.type = "tool_calls" /\ Len(event.tool_calls) > 0
            THEN RunStepCalls(event, 1, conv, active)
            ELSE Processed(conv, active, FALSE)
      [] event.event_type = "thread.message.delta" ->
            LET content == Concat(event.content)
            IN  IF content = "" THEN Processed(conv, active, FALSE)
                ELSE IF Len(conv) = 0 \/ ~IsPlainAssistant(conv[Len(conv)])
                THEN Processed(Append(conv, ChatMessage("assistant", content, NoMetadata)),
                               active, FALSE)
                ELSE Processed([conv EXCEPT ![Len(conv)].content = @ \o content],
                               active, FALSE)
      [] OTHER -> Processed(conv, active, FALSE)

-----------------------------------------------------------------------------
(* azure_store_chat as a state machine, chat_ui.py lines 286-538 *)

\* The transcript a turn leaves when its stream delivers `stream_events` and
\* ends, starting from the conversation conv.
RECURSIVE TranscriptAfter(_, _, _, _)
TranscriptAfter(stream_events, conv, active, handler) ==
    IF Len(stream_events) = 0 THEN Dicts(conv)
    ELSE LET handled == HandlerCallback(Head(stream_events), conv, handler)
             processed == ProcessEvent(Head(stream_events), handled.conversation, active)
         IN  TranscriptAfter(Tail(stream_events), processed.conversation,
                             processed.active_tool_calls, handled.event_handler)

\* The chatbot's value after an earlier turn: a tool call and an answer.
EarlierTranscript ==
    TranscriptAfter(
        << RunStepDelta(<<FunctionDelta("call_2", "get_shelf_layout", "{}")>>),
           RunStep("tool_calls", "completed", <<FunctionCall("call_2", OutLayout)>>, None),
           MessageDelta("msg_2", <<"Shelf ", "A1">>),
           ThreadMessage("msg_2", "assistant", "completed", <<"Shelf A1">>) >>,
        <<ChatMessage("user", "Show layout for shelf A1", NoMetadata)>>,
        <<>>, NewEventHandler)

\* A fresh interface, or one whose chatbot shows an earlier turn, submitted
\* The id of the thread main.py creates at start-up (lines 160-163), and the
\* value that stands for no thread.
FirstThread == 1

NoThread == 0

\* create_chat_interface returns the closure azure_store_chat, which keeps the
\* thread it was given (chat_ui.py lines 264-286, 322, 402).
create_chat_interface(thread_id) == [thread |-> thread_id]

\* at time 100 or 101.  main.py has created the first thread (lines 160-163),
\* made the chat function for it (line 169) and registered that function
\* object with the input box (lines 244-245).
ChatInit ==
    /\ pc = "idle"
    /\ conversation = <<>>
    /\ active_tool_calls = <<>>
    /\ event_handler = NewEventHandler
    /\ \/ emitted = <<>> /\ last_message_sent_time = 0
       \/ emitted = EarlierTranscript /\ last_message_sent_time \in {100, 101}
    /\ input_box = ""
    /\ turns = 0
    /\ submitted_at = 0
    /\ log = <<>>
    /\ events = 0
    /\ thread = FirstThread
    /\ azure_store_chat = create_chat_interface(thread)
    /\ submit_fn = azure_store_chat
    /\ turn_thread = NoThread

\* user_message.strip() is empty
IsBlank(user_message) ==
    \A i \in 1..Len(user_message) : SubSeq(user_message, i, i) = " "

\* Line 291 without the guard.
Debounced_never(current_time, last_sent) == FALSE

\* Line 291: the submission at current_time comes too soon after last_sent.
Debounced(current_time, last_sent) == current_time - last_sent < DebounceSeconds

\* The second output of every yield of azure_store_chat: the input box, cleared.
ClearedInput == ""

\* Line 309 with the user message put in front of the history.
append_user_message_first(conv, user_message) ==
    <<ChatMessage("user", user_message, NoMetadata)>> \o conv

\* Line 309: the user message goes to the end of the converted history.
append_user_message(conv, user_message) ==
    Append(conv, ChatMessage("user", user_message, NoMetadata))

\* The user typed user_message into the empty input box and submitted it at
\* time current_time: lines 286-310, to the first yield.
Submit ==
    \E user_message \in UserMessageInputs, current_time \in TimeInputs :
        LET history == emitted
        IN  /\ pc = "idle"
            /\ turns < MaxTurns
            /\ current_time >= last_message_sent_time
            /\ turns' = turns + 1
            /\ submitted_at' = current_time
            /\ input_box' = ClearedInput
            /\ IF Debounced(current_time, last_message_sent_time)
                  \/ IsBlank(user_message)
               THEN /\ emitted' = history
                    /\ UNCHANGED <<pc, conversation, active_tool_calls, event_handler,
                                   last_message_sent_time, log, events>>
               ELSE /\ last_message_sent_time' = current_time
                    /\ conversation' = append_user_message(ChatMessages(history),
                                                           user_message)
                    /\ emitted' = Dicts(conversation')
                    /\ pc' = "send"
                    /\ log' = <<>>
                    /\ UNCHANGED <<active_tool_calls, event_handler, events>>
            /\ UNCHANGED <<storeVars, mainVars, turn_thread>>

\* create_message returned: lines 321-325 and the set-up of lines 392-396.
\* The thread is the one the running closure was created with; create_stream
\* (lines 401-405) is given the same thread.id.
MessageSent ==
    /\ pc = "send"
    /\ pc' = "stream"
    /\ active_tool_calls' = <<>>
    /\ event_handler' = NewEventHandler
    /\ turn_thread' = submit_fn.thread
    /\ UNCHANGED <<conversation, emitted, input_box, last_message_sent_time, turns,
                   submitted_at, log, events>>
    /\ UNCHANGED <<storeVars, mainVars>>

\* What create_message raises when it fails.
SendException == [event_type |-> "exception", message |-> "connection refused"]

\* The except clause of lines 326-329 without its append.
send_error_transcript_silent(conv, msg_ex) == conv

\* The except clause of lines 326-329.
send_error_transcript(conv, msg_ex) ==
    Append(conv, ChatMessage("assistant", "Error sending message: " \o msg_ex.message,
                             NoMetadata))

\* create_message raised: lines 326-331.
MessageSendFailed ==
    /\ pc = "send"
    /\ conversation' = send_error_transcript(conversation, SendException)
    /\ emitted' = Dicts(conversation')
    /\ input_box' = ClearedInput
    /\ pc' = "idle"
    /\ UNCHANGED <<active_tool_calls, event_handler, last_message_sent_time, turns,
                   submitted_at, log, events>>
    /\ UNCHANGED <<storeVars, mainVars, turn_thread>>

\* Lines 524-526 with the exception ending the turn.
after_item_ending(raised) == IF raised THEN "idle" ELSE "stream"

\* Where azure_store_chat is after one item: back at the head of the loop,
\* through the yield of line 522 or the `continue` of lines 524-526.
after_item(raised) == "stream"

\* The stream delivered one event: the handler's callback, the loop body and
\* the yield of line 522.
StreamEvent ==
    \E event \in StreamEvents :
        LET handled == HandlerCallback(event, conversation, event_handler)
            processed == ProcessEvent(event, handled.conversation, active_tool_calls)
        IN  /\ pc = "stream"
            /\ events < MaxEvents
            /\ events' = events + 1
            /\ event_handler' = handled.event_handler
            /\ conversation' = processed.conversation
            /\ active_tool_calls' = processed.active_tool_calls
            /\ emitted' = IF processed.raised THEN emitted ELSE Dicts(processed.conversation)
            /\ input_box' = IF processed.raised THEN input_box ELSE ClearedInput
            /\ log' = Append(log, event)
            /\ pc' = after_item(processed.raised)
            /\ UNCHANGED <<last_message_sent_time, turns, submitted_at>>
            /\ UNCHANGED <<storeVars, mainVars, turn_thread>>

\* What the log records when the stream raises instead of delivering an item.
StreamException == [event_type |-> "exception", message |-> "stream closed"]

\* The except clause of lines 529-535, with the conversation dropped.
stream_error_transcript_discarding(conv, stream_ex) ==
    <<ChatMessage("assistant",
        "An error occurred while processing your request: " \o stream_ex.message, NoMetadata)>>

\* The except clause of lines 529-535.
stream_error_transcript(conv, stream_ex) ==
    Append(conv, ChatMessage("assistant",
        "An error occurred while processing your request: " \o stream_ex.message, NoMetadata))

\* The turn without the yield of line 538: the chatbot keeps what it showed.
final_yield_missing(conv, shown) == shown

\* The yield of line 538: the chatbot's value after the stream closed.
final_yield(conv, shown) == Dicts(conv)

\* Opening or iterating the stream raised: lines 529-538.
StreamFailed ==
    /\ pc = "stream"
    /\ conversation' = stream_error_transcript(conversation, StreamException)
    /\ emitted' = final_yield(conversation', emitted)
    /\ input_box' = ClearedInput
    /\ pc' = "idle"
    /\ log' = Append(log, StreamException)
    /\ UNCHANGED <<active_tool_calls, event_handler, last_message_sent_time, turns,
                   submitted_at, events>>
    /\ UNCHANGED <<storeVars, mainVars, turn_thread>>

\* The stream ended: lines 528 and 538.
StreamFinished ==
    /\ pc = "stream"
    /\ emitted' = final_yield(conversation, emitted)
    /\ input_box' = ClearedInput
    /\ pc' = "idle"
    /\ UNCHANGED <<conversation, active_tool_calls, event_handler, last_message_sent_time,
                   turns, submitted_at, log, events>>
    /\ UNCHANGED <<storeVars, mainVars, turn_thread>>

ChatNext ==
    \/ Submit
    \/ MessageSent
    \/ MessageSendFailed
    \/ StreamEvent
    \/ StreamFailed
    \/ StreamFinished

\* The "Clear Chat History" button, pressed between turns: clear_history
\* (main.py lines 177-185) creates a thread, rebinds the globals thread and
\* azure_store_chat, and returns [] for the chatbot.  The function object
\* registered with the input box (line 244) is not touched.
ClearHistory ==
    /\ pc = "idle"
    /\ thread < MaxThreads
    /\ thread' = thread + 1
    /\ azure_store_chat' = create_chat_interface(thread')
    /\ emitted' = <<>>
    /\ UNCHANGED <<pc, conversation, input_box, active_tool_calls, event_handler,
                   last_message_sent_time, turns, submitted_at, log, events>>
    /\ UNCHANGED <<storeVars, submit_fn, turn_thread>>

ClearNext ==
    \/ ChatNext
    \/ ClearHistory

-----------------------------------------------------------------------------
(* The specifications *)

Init == StoreInit /\ ChatInit

\* The store under its tool functions, with the chat interface fresh and idle.
StoreOnly == Init /\ emitted = <<>>

Next == StoreNext

Spec == StoreOnly /\ [][Next]_vars

\* The storage-request table after request_item_from_storage("SKU001", 5, "A2")
\* drew REQ1000 and a check_delivery_status advanced the request.
RequestInTransit ==
    check_delivery_status(InitialInventory, InitialShelfLayouts,
        request_item_from_storage(InitialInventory, InitialShelfLayouts, <<>>,
            "SKU001", 5, "A2", "REQ1000").storage_requests,
        "REQ1000", TRUE).storage_requests

\* The store a while after start-up: the fixture, with that request on its way.
StoreLater ==
    /\ inventory = InitialInventory
    /\ shelf_layouts = InitialShelfLayouts
    /\ storage_requests = RequestInTransit
    /\ call = [op |-> "none"]
    /\ result = [none |-> TRUE]
    /\ calls = 0
    /\ ChatInit
    /\ emitted = <<>>

RequestSpec == StoreLater /\ [][Next]_vars

\* A level filled with one item.
Full(a) == <<a, a, a>>

\* The layouts after restocks moved the stock around: on A1 the only SKU001
\* lies below the first empty slot, and A2 has lost SKU003 but has room.
LayoutsMoved ==
    [InitialShelfLayouts EXCEPT
        !["A1"] = << Full("SKU002"), Full("SKU002"),
                     <<"SKU002", "SKU002", None>>, <<None, "SKU001", None>> >>,
        !["A2"] = << Full("SKU004"), Full("SKU004"),
                     <<"SKU004", None, None>>, <<None, None, None>> >>]

\* The layouts after restocks filled A2 with SKU004.
LayoutsFull ==
    [InitialShelfLayouts EXCEPT
        !["A2"] = << Full("SKU004"), Full("SKU004"), Full("SKU004"), Full("SKU004") >>]

\* The store after many restocks (and counts that set the stocks back).
StoreRestocked ==
    /\ inventory = InitialInventory
    /\ shelf_layouts \in {LayoutsMoved, LayoutsFull}
    /\ storage_requests = <<>>
    /\ call = [op |-> "none"]
    /\ result = [none |-> TRUE]
    /\ calls = 0
    /\ ChatInit
    /\ emitted = <<>>

RestockedSpec == StoreRestocked /\ [][Next]_vars

ChatSpec == Init /\ [][ChatNext]_vars

\* The interface before its first submission.
FreshInterface == Init /\ emitted = <<>>

\* The generator is run to its end: Gradio asks for the next value until the
\* generator is exhausted, create_message returns or raises, and the stream,
\* being finite, delivers its next item, ends or raises.
TurnSpec ==
    /\ FreshInterface
    /\ [][ChatNext]_vars
    /\ WF_vars(MessageSent \/ MessageSendFailed)
    /\ WF_vars(StreamEvent \/ StreamFailed \/ StreamFinished)

\* A tool call in a run of calls without end: Returns, with the counter
\* stopping at MaxCalls.
Repeats(c, o) ==
    /\ calls' = IF calls < MaxCalls THEN calls + 1 ELSE calls
    /\ call' = c
    /\ inventory' = o.inventory
    /\ shelf_layouts' = o.shelf_layouts
    /\ storage_requests' = o.storage_requests
    /\ result' = o.result
    /\ UNCHANGED chatVars
    /\ UNCHANGED <<mainVars, turn_thread>>

\* request_item_from_storage, with any arguments and any identifier drawn.
Requesting ==
    \E item_id \in ItemIdInputs, quantity \in QuantityInputs,
       target_location_id \in ShelfIdInputs, request_id \in RequestIdInputs :
        Repeats([op |-> "request_item_from_storage", item_id |-> item_id,
                 quantity |-> quantity, target_location_id |-> target_location_id],
                request_item_from_storage(inventory, shelf_layouts, storage_requests,
                    item_id, quantity, target_location_id, request_id))

\* check_delivery_status(request_id) whose random draw comes out as `advance`.
Checking(request_id, advance) ==
    Repeats([op |-> "check_delivery_status", request_id |-> request_id],
            check_delivery_status(inventory, shelf_layouts, storage_requests,
                request_id, advance))

Polling == \E request_id \in RequestIdInputs, advance \in BOOLEAN : Checking(request_id, advance)

PollNext ==
    \/ Requesting
    \/ Polling

\* The status of the request, None when there is no such request.
StatusOf(request_id) ==
    IF request_id \in DOMAIN storage_requests
    THEN storage_requests[request_id].status
    ELSE None

\* A check of the request in the given status whose draw lets it advance
\* (lines 198 and 200: random.random() > 0.7, random.random() > 0.5).
Advancing(request_id, status) ==
    /\ StatusOf(request_id) = status
    /\ Checking(request_id, TRUE)

\* Requests are made and checked without end.  A request that is checked again
\* and again in a status is, the draws being independent with a fixed chance
\* of success, at some check let through: strong fairness of the advancing
\* check in either status.
PollSpec ==
    /\ StoreOnly
    /\ [][PollNext]_vars
    /\ \A request_id \in RequestIdInputs :
           /\ SF_vars(Advancing(request_id, "Pending"))
           /\ SF_vars(Advancing(request_id, "In Transit"))

\* The chat interface with the button that clears the chat history.
ClearSpec == Init /\ [][ClearNext]_vars

-----
(* Properties of the store *)

Max(a, b) == IF a >= b THEN a ELSE b

Tables == <<inventory, shelf_layouts, storage_requests>>

\* The tool functions that take an item identifier (image_data is one).
ItemFunctions ==
    {"check_item_stock", "find_item_location", "request_item_from_storage",
     "update_inventory_count", "mark_item_restocked", "log_damaged_item",
     "identify_and_restock_item_from_image"}

\* The step that made the call call' was update_inventory_count on a known item
\* and did what C1 says.
C1_UpdateStep ==
    (call'.op = "update_inventory_count" /\ call'.item_id \in DOMAIN inventory) =>
        LET old_stock == inventory[call'.item_id].stock
            new_stock == Max(0, old_stock + call'.quantity_change)
        IN  /\ inventory'[call'.item_id].stock = new_stock
            /\ "error" \notin DOMAIN result'
            /\ result'.previous_stock = old_stock
            /\ result'.new_stock = new_stock

\* C1: after any sequence of tool calls every item's stock is >= 0, and
\* update_inventory_count(item_id, delta) on a known item sets the stock to
\* max(0, old_stock + delta) and returns previous_stock = old_stock and
\* new_stock = the new stock, for negative, zero and positive delta.
C1_StockNeverNegative ==
    /\ [](\A item_id \in DOMAIN inventory : inventory[item_id].stock >= 0)
    /\ [][C1_UpdateStep]_vars

\* C1 witness: an update whose delta exceeds the stock was clamped at 0.
C1_Witness ==
    /\ call.op = "update_inventory_count"
    /\ "error" \notin DOMAIN result
    /\ result.previous_stock + call.quantity_change < 0
    /\ result.new_stock = 0
    /\ inventory[call.item_id].stock = 0

\* C2: every tool function that takes an item identifier, called with an
\* identifier that is no key of the inventory, returns an object with an error
\* field and leaves inventory, shelf layouts and storage requests as they were,
\* whatever its other arguments are.
C2_UnknownItemIsError ==
    [][ (call'.op \in ItemFunctions /\ call'.item_id \notin DOMAIN inventory) =>
            ("error" \in DOMAIN result' /\ UNCHANGED Tables) ]_vars

\* C2 witness: mark_item_restocked on the unknown SKU005 with a valid shelf,
\* slot and quantity returned an error.
C2_Witness ==
    /\ call.op = "mark_item_restocked"
    /\ call.item_id = "SKU005"
    /\ call.shelf_id = "A2" /\ call.shelf_index = 0 /\ call.position_index = 2
    /\ call.quantity = 5
    /\ "error" \in DOMAIN result
    /\ shelf_layouts = InitialShelfLayouts

\* The arguments of a mark_item_restocked call c fail one of the validations
\* C3 lists, on the shelves sh.
C3_Invalid(c, sh) ==
    \/ c.shelf_id \notin DOMAIN sh
    \/ ~(0 <= c.shelf_index /\ c.shelf_index < Len(sh[c.shelf_id]))
    \/ ~(0 <= c.position_index
            /\ c.position_index < Len(sh[c.shelf_id][c.shelf_index + 1]))
    \/ c.quantity <= 0

\* C3: mark_item_restocked with an unknown shelf, a shelf_index outside
\* [0, rows), a position_index outside [0, columns) or a quantity <= 0 returns
\* an error and changes no shelf slot and no stock.
C3_RestockAllOrNothing ==
    [][ (call'.op = "mark_item_restocked" /\ C3_Invalid(call', shelf_layouts)) =>
            ("error" \in DOMAIN result' /\ UNCHANGED <<inventory, shelf_layouts>>) ]_vars

\* C3 witness: a known item, a known shelf, a valid row and quantity, and the
\* negative position index -1, after an earlier call: an error.
C3_Witness ==
    /\ call.op = "mark_item_restocked"
    /\ call.item_id = "SKU001"
    /\ call.shelf_id = "A2" /\ call.shelf_index = 0 /\ call.position_index = -1
    /\ call.quantity = 5
    /\ "error" \in DOMAIN result
    /\ calls = 2

\* The arguments of a mark_item_restocked call c pass every validation.
C4_Valid(c, inv, sh) ==
    /\ c.item_id \in DOMAIN inv
    /\ c.shelf_id \in DOMAIN sh
    /\ 0 <= c.shelf_index /\ c.shelf_index < Len(sh[c.shelf_id])
    /\ 0 <= c.position_index /\ c.position_index < Len(sh[c.shelf_id][c.shelf_index + 1])
    /\ c.quantity > 0

\* C4: with valid arguments the state after mark_item_restocked is the state
\* after writing the item id into the addressed slot and then calling
\* update_inventory_count(item_id, +quantity); inventory_update is that call's
\* result and the result has no error field.
C4_RestockIsWriteThenUpdate ==
    [][ (call'.op = "mark_item_restocked" /\ C4_Valid(call', inventory, shelf_layouts)) =>
            LET c == call'
                written == [shelf_layouts EXCEPT
                               ![c.shelf_id][c.shelf_index + 1][c.position_index + 1] = c.item_id]
                upd == update_inventory_count(inventory, written, storage_requests,
                            c.item_id, c.quantity,
                            "Restocked on " \o SlotLabel(c.shelf_id, c.shelf_index, c.position_index))
            IN  /\ shelf_layouts' = written
                /\ inventory' = upd.inventory
                /\ inventory'[c.item_id].stock = inventory[c.item_id].stock + c.quantity
                /\ storage_requests' = storage_requests
                /\ "error" \notin DOMAIN result'
                /\ result'.inventory_update = upd.result ]_vars

\* C4 witness: SKU001 restocked into slot (0, 2) of shelf A2, which held SKU004.
C4_Witness ==
    /\ call.op = "mark_item_restocked"
    /\ call.item_id = "SKU001" /\ call.shelf_id = "A2"
    /\ call.shelf_index = 0 /\ call.position_index = 2
    /\ "inventory_update" \in DOMAIN result
    /\ shelf_layouts["A2"][1][3] = "SKU001"
    /\ InitialShelfLayouts["A2"][1][3] = "SKU004"
    /\ inventory["SKU001"].stock = result.inventory_update.new_stock


-----------------------------------------------------------------------------
(* Properties of the transcript *)

ToolEventTypes == {"thread.run.step.delta", "run_step"}

\* The bubble identifiers the entries of conv carry.
BubbleIds(conv) == {conv[i].metadata.id : i \in {j \in 1..Len(conv) : Truthy(conv[j].metadata)}}

\* The first entry of the current turn's answer: the one after the last user
\* message.
TurnStart == LastIndex({0} \cup {i \in 1..Len(conversation) : conversation[i].role = "user"}) + 1

\* The run_step event e reports a completed step of kind tool_calls whose
\* calls are function calls.
IsCompletedStep(e) ==
    /\ e.event_type = "run_step"
    /\ e.type = "tool_calls"
    /\ e.status = "completed"
    /\ \A k \in 1..Len(e.tool_calls) : e.tool_calls[k].type = "function"

\* In conv the call call_id has exactly one bubble, and its status is `status`.
OneBubble(conv, call_id, status) ==
    /\ Cardinality(BubbleIndices(conv, BubbleId(call_id))) = 1
    /\ \A i \in BubbleIndices(conv, BubbleId(call_id)) : conv[i].metadata.status = status

\* C5: when the stream has just delivered the same "tool call completed"
\* event twice, the transcript holds exactly one bubble for each function
\* call the event lists, and that bubble is done.
C5_CompletedTwiceOneDoneBubble ==
    (/\ Len(log) >= 2
     /\ log[Len(log)] = log[Len(log) - 1]
     /\ IsCompletedStep(log[Len(log)]))
    => \A k \in 1..Len(log[Len(log)].tool_calls) :
          /\ OneBubble(conversation, log[Len(log)].tool_calls[k].id, "done")
          /\ OneBubble(emitted, log[Len(log)].tool_calls[k].id, "done")

\* The step delivered a tool event: a step delta or a run step.
C6_ToolEventStep ==
    /\ Len(log') = Len(log) + 1
    /\ log'[Len(log')].event_type \in ToolEventTypes

\* C6: no two entries of the transcript (the conversation and what was
\* emitted from it) carry the same bubble identifier; a tool event leaves
\* every bubble where it was, under the same identifier, and appends one
\* entry for each identifier that was not there and none for one that was.
C6_BubbleIdsUnique ==
    /\ [](\A bubble_id \in BubbleIds(conversation) \cup BubbleIds(emitted) :
             /\ Cardinality(BubbleIndices(conversation, bubble_id)) <= 1
             /\ Cardinality(BubbleIndices(emitted, bubble_id)) <= 1)
    /\ [][C6_ToolEventStep =>
             /\ Len(conversation') =
                    Len(conversation)
                        + Cardinality(BubbleIds(conversation') \ BubbleIds(conversation))
             /\ \A i \in 1..Len(conversation) :
                    /\ conversation'[i].role = conversation[i].role
                    /\ Truthy(conversation[i].metadata)
                        => /\ Truthy(conversation'[i].metadata)
                           /\ conversation'[i].metadata.id = conversation[i].metadata.id
                    /\ ~Truthy(conversation[i].metadata)
                        => conversation'[i] = conversation[i]]_vars

\* C6 witness: call_1 was started, completed, and its delta replayed, and the
\* transcript of the turn holds one bubble for it after the user message.
C6_Witness ==
    /\ Len(log) = 3
    /\ log[1] = RunStepDelta(<<FunctionDelta("call_1", "check_item_stock", "{\"item_id\":")>>)
    /\ log[2] = RunStep("tool_calls", "completed", <<FunctionCall("call_1", OutNotJson)>>, None)
    /\ log[3] = log[1]
    /\ Cardinality(BubbleIndices(conversation, "tool-call_1")) = 1
    /\ Len(conversation) = TurnStart

\* C7: after message deltas under one message identifier, and nothing else,
\* the last entry of the transcript is a plain assistant entry whose content
\* is the concatenation of their fragments in delivery order.
C7_FragmentsConcatenate ==
    (/\ pc = "stream"
     /\ Len(log) >= 1
     /\ \A k \in 1..Len(log) :
            /\ log[k].event_type = "thread.message.delta"
            /\ log[k].id = log[1].id)
    => /\ IsPlainAssistant(conversation[Len(conversation)])
       /\ conversation[Len(conversation)].content =
              Concat([k \in 1..Len(log) |-> Concat(log[k].content)])

\* The step in which the stream raised.
C8_StreamFailureStep == log' = Append(log, StreamException)

\* C8: the step in which the stream raises appends exactly one plain
\* assistant entry that describes the failure, leaves every earlier entry as
\* it was, and emits the resulting transcript; nothing is emitted after it
\* in that turn.
C8_StreamFailureAppendsOne ==
    /\ [][C8_StreamFailureStep =>
             /\ Len(conversation') = Len(conversation) + 1
             /\ SubSeq(conversation', 1, Len(conversation)) = conversation
             /\ IsPlainAssistant(conversation'[Len(conversation')])
             /\ conversation'[Len(conversation')].content =
                    "An error occurred while processing your request: stream closed"
             /\ emitted' = Dicts(conversation')]_vars
    /\ []((Len(log) > 0 /\ log[Len(log)] = StreamException)
              => pc = "idle" /\ emitted = Dicts(conversation))

\* C8 witness: the stream raised after it had delivered a tool-call delta and
\* a message delta, and the transcript ends with the error entry.
C8_Witness ==
    /\ Len(log) = 3
    /\ log[1].event_type = "thread.run.step.delta"
    /\ log[2].event_type = "thread.message.delta"
    /\ log[3] = StreamException
    /\ Len(conversation) >= TurnStart + 2
    /\ BubbleIds(SubSeq(conversation, TurnStart, Len(conversation))) # {}
    /\ emitted = Dicts(conversation)

\* C9: a bubble of the current turn whose status is done or error keeps that
\* status through every later event of the turn.
C9_TerminalStatusStays ==
    [][(Len(log') = Len(log) + 1) =>
          \A i \in TurnStart..Len(conversation) :
              (/\ Truthy(conversation[i].metadata)
               /\ conversation[i].metadata.status \in {"done", "error"})
              => /\ Truthy(conversation'[i].metadata)
                 /\ conversation'[i].metadata.status = conversation[i].metadata.status]_vars

\* C10: when the stream has just delivered a completed step of kind
\* tool_calls, every function call the step lists has a bubble whose status
\* is done and has no entry in the active tool-call table, whatever its
\* output.
C10_CompletedStepCleansUp ==
    (/\ pc = "stream"
     /\ Len(log) >= 1
     /\ IsCompletedStep(log[Len(log)]))
    => \A k \in 1..Len(log[Len(log)].tool_calls) :
          /\ log[Len(log)].tool_calls[k].id \notin DOMAIN active_tool_calls
          /\ OneBubble(conversation, log[Len(log)].tool_calls[k].id, "done")


\* The run_step event e reports a failed step of kind tool_calls.
IsFailedStep(e) ==
    /\ e.event_type = "run_step"
    /\ e.type = "tool_calls"
    /\ e.status = "failed"

\* The name the table `active` holds for call_id, "unknown_function" when it
\* holds none.
TrackedName(active, call_id) ==
    IF call_id \in DOMAIN active THEN active[call_id].name ELSE "unknown_function"

\* The text after " - " that a failed step's bubble must carry, "" when the
\* event brought no error detail.
C11_Detail(e) == IF e.last_error = None THEN "" ELSE " - " \o e.last_error

C12_SearchCallMarkedDone ==
    (/\ pc = "stream"
     /\ Len(log) >= 1
     /\ log[Len(log)].event_type = "run_step"
     /\ log[Len(log)].type = "tool_calls"
     /\ log[Len(log)].status = "completed")
    => \A k \in 1..Len(log[Len(log)].tool_calls) :
          log[Len(log)].tool_calls[k].type # "function"
          => /\ OneBubble(conversation, log[Len(log)].tool_calls[k].id, "done")
             /\ \A i \in BubbleIndices(conversation, BubbleId(log[Len(log)].tool_calls[k].id)) :
                    conversation[i].content = "Finished searching web sources."


\* C13: a submission made less than DebounceSeconds after the last accepted
\* one returns the transcript as it was: nothing is appended, nothing is sent
\* to the agent (the turn stays idle and its stream log untouched), and the
\* time of the last accepted submission stays what it was.
C13_EarlySubmissionRejected ==
    [][(/\ turns' = turns + 1
        /\ submitted_at' - last_message_sent_time < DebounceSeconds) =>
          /\ emitted' = emitted
          /\ conversation' = conversation
          /\ pc = "idle" /\ pc' = "idle"
          /\ log' = log
          /\ events' = events
          /\ last_message_sent_time' = last_message_sent_time]_vars

\* C13 witness: the chatbot shows an earlier turn accepted at time 101, and a
\* submission at time 102 has been rejected.
C13_Witness ==
    /\ turns = 1
    /\ submitted_at = 102
    /\ last_message_sent_time = 101
    /\ pc = "idle"
    /\ emitted = EarlierTranscript
    /\ conversation = <<>>


\* C14: the step in which sending the user message fails appends exactly one
\* plain assistant entry that describes the failure, right after the user
\* entry, leaves the earlier entries as they were, emits that transcript and
\* ends the turn; the stream is not opened in that turn (it only ever opens
\* from a turn whose message is being sent, and this turn has stopped).
C14_SendFailureEndsTurn ==
    /\ [][(pc = "send" /\ pc' = "idle") =>
             /\ Len(conversation') = Len(conversation) + 1
             /\ SubSeq(conversation', 1, Len(conversation)) = conversation
             /\ conversation[Len(conversation)].role = "user"
             /\ IsPlainAssistant(conversation'[Len(conversation')])
             /\ conversation'[Len(conversation')].content =
                    "Error sending message: connection refused"
             /\ emitted' = Dicts(conversation')
             /\ log = <<>> /\ log' = <<>>
             /\ events' = events]_vars
    /\ [][pc' = "stream" => pc \in {"send", "stream"}]_vars

\* C14 witness: the turn after an earlier one ended with the send failure;
\* the transcript emitted is the earlier one, the user entry and the error.
C14_Witness ==
    /\ pc = "idle"
    /\ turns = 1
    /\ log = <<>>
    /\ Len(emitted) = Len(EarlierTranscript) + 2
    /\ emitted[Len(emitted) - 1].role = "user"
    /\ emitted[Len(emitted)] =
           [role |-> "assistant", content |-> "Error sending message: connection refused",
            metadata |-> EmptyMetadata]


\* Processing the step delta e raises: it carries a function call whose
\* arguments are None, which line 435 adds to a string.
IsRaising(e) ==
    /\ e.event_type = "thread.run.step.delta"
    /\ e.type = "tool_calls"
    /\ \E k \in 1..Len(e.tool_calls) :
           /\ e.tool_calls[k].type = "function"
           /\ e.tool_calls[k].function.arguments = None

\* The string s ends with the string t.
EndsWith(s, t) == Len(s) >= Len(t) /\ SubSeq(s, Len(s) - Len(t) + 1, Len(s)) = t

\* An event before the last one of the log raised.
C15_RaisedEarlier == \E i \in 1..(Len(log) - 1) : IsRaising(log[i])

\* C15: the step whose event raises leaves the turn in its stream and emits
\* nothing; the events after it are still processed (a message delta puts its
\* text at the end of the last assistant entry, a completed function call with
\* an output gets its one bubble, done); and when the stream ends the
\* transcript emitted is the conversation.
C15_BadEventSkipped ==
    /\ [][(Len(log') = Len(log) + 1 /\ IsRaising(log'[Len(log')])) =>
             /\ pc' = "stream"
             /\ emitted' = emitted]_vars
    /\ []((pc = "stream" /\ C15_RaisedEarlier) =>
             LET e == log[Len(log)]
             IN  /\ e.event_type = "thread.message.delta" =>
                        /\ IsPlainAssistant(conversation[Len(conversation)])
                        /\ EndsWith(conversation[Len(conversation)].content, Concat(e.content))
                        /\ emitted = Dicts(conversation)
                 /\ (IsCompletedStep(e)
                        /\ \A k \in 1..Len(e.tool_calls) : e.tool_calls[k].function.output # "") =>
                        /\ \A k \in 1..Len(e.tool_calls) :
                               OneBubble(conversation, e.tool_calls[k].id, "done")
                        /\ emitted = Dicts(conversation))
    /\ [][(pc = "stream" /\ pc' = "idle") => emitted' = Dicts(conversation')]_vars

\* C15 witness: the first event of the turn raised, a message delta and a
\* completed call followed and are in the transcript, the stream has ended
\* and that transcript was emitted.
C15_Witness ==
    /\ pc = "idle"
    /\ Len(log) = 3
    /\ IsRaising(log[1])
    /\ log[2] = MessageDelta("msg_1", <<"Hel">>)
    /\ log[3] = RunStep("tool_calls", "completed", <<FunctionCall("call_1", OutNotJson)>>, None)
    /\ OneBubble(conversation, "call_1", "done")
    /\ OneBubble(conversation, "call_2", "pending")
    /\ emitted = Dicts(conversation)


-----------------------------------------------------------------------------
(* Properties of the storage requests and the shelf grids *)

\* The step was a request_item_from_storage call that created a request.
RequestCreated ==
    /\ call'.op = "request_item_from_storage"
    /\ calls' = calls + 1
    /\ "request_id" \in DOMAIN result'

\* C16: a successful request_item_from_storage adds exactly one entry to the
\* storage-request table, under an identifier that was not in it, with status
\* Pending, and leaves every request that was in the table as it was; so the
\* number of requests grows by one.
C16_RequestAddsOneFreshEntry ==
    [][RequestCreated =>
          /\ result'.request_id \notin DOMAIN storage_requests
          /\ DOMAIN storage_requests' = DOMAIN storage_requests \cup {result'.request_id}
          /\ Cardinality(DOMAIN storage_requests') = Cardinality(DOMAIN storage_requests) + 1
          /\ storage_requests'[result'.request_id].status = "Pending"
          /\ \A r \in DOMAIN storage_requests : storage_requests'[r] = storage_requests[r]]_vars


\* The call c, made with the tables inv, sh and req, is one that C17 is about:
\* a request for an unknown item, for an unknown shelf or for no positive
\* quantity, or a status check of an unknown request.
C17_Invalid(c, inv, sh, req) ==
    \/ /\ c.op = "request_item_from_storage"
       /\ \/ c.item_id \notin DOMAIN inv
          \/ c.target_location_id \notin DOMAIN sh
          \/ c.quantity <= 0
    \/ /\ c.op = "check_delivery_status"
       /\ c.request_id \notin DOMAIN req

\* C17: request_item_from_storage with an unknown item, an unknown target
\* shelf or a quantity <= 0, and check_delivery_status with an unknown request
\* identifier, return an object with an error field and leave the
\* storage-request table (and the other tables) as it was.
C17_InvalidRequestIsError ==
    [][(calls' = calls + 1
        /\ C17_Invalid(call', inventory, shelf_layouts, storage_requests)) =>
          /\ DOMAIN result' = {"error"}
          /\ storage_requests' = storage_requests
          /\ Tables' = Tables]_vars

\* C17 witness: with a request in the table, a request for a known item and a
\* positive quantity named the unknown shelf Z9 and was refused.
C17_Witness ==
    /\ calls = 2
    /\ call = [op |-> "request_item_from_storage", item_id |-> "SKU001", quantity |-> 5,
               target_location_id |-> "Z9"]
    /\ result = [error |-> "Target Shelf ID Z9 does not exist."]
    /\ DOMAIN storage_requests = {"REQ1000"}


\* How far a request with the status `status` has got.
Rank(status) ==
    CASE status = "Pending" -> 0
      [] status = "In Transit" -> 1
      [] status = "Delivered" -> 2
      [] OTHER -> -1

\* C18: every storage request has status Pending, In Transit or Delivered;
\* no step moves the status of a request backwards or more than one stage
\* forwards, Delivered stays Delivered, and the status of a request changes
\* only in a check_delivery_status call for that request.
C18_StatusOnlyAdvances ==
    /\ [](\A r \in DOMAIN storage_requests : Rank(storage_requests[r].status) >= 0)
    /\ [][\A r \in DOMAIN storage_requests :
             /\ r \in DOMAIN storage_requests'
             /\ Rank(storage_requests'[r].status) >= Rank(storage_requests[r].status)
             /\ Rank(storage_requests'[r].status) <= Rank(storage_requests[r].status) + 1
             /\ storage_requests[r].status = "Delivered"
                    => storage_requests'[r].status = "Delivered"
             /\ storage_requests'[r].status # storage_requests[r].status
                    => /\ call'.op = "check_delivery_status"
                       /\ call'.request_id = r]_vars


\* The item identifiers the list low_stock_items names.
ListedItems(low_stock_items) == {low_stock_items[k].item_id : k \in 1..Len(low_stock_items)}

\* C19: get_items_needing_restock(category, min_stock_level) lists an item,
\* once and with its stock, exactly when its stock is below min_stock_level
\* and, if a category is given, its category is that one; count is the
\* length of the list; and the call changes no table.  So an item whose stock
\* an update raised to the threshold or above is not listed.
C19_RestockListIsExact ==
    [][(calls' = calls + 1 /\ call'.op = "get_items_needing_restock") =>
          LET listed == result'.low_stock_items
          IN  /\ ListedItems(listed) =
                     {item_id \in DOMAIN inventory :
                         /\ inventory[item_id].stock < call'.min_stock_level
                         /\ (call'.category = None
                                \/ inventory[item_id].category = call'.category)}
              /\ Cardinality(ListedItems(listed)) = Len(listed)
              /\ \A k \in 1..Len(listed) :
                     listed[k].current_stock = inventory[listed[k].item_id].stock
              /\ result'.count = Len(listed)
              /\ Tables' = Tables]_vars

\* C19 witness: SKU003 (stock 8, the one item below 9) got +5 and stands at
\* 13, and the list for threshold 9 that followed is empty.
C19_Witness ==
    /\ calls = 2
    /\ call = [op |-> "get_items_needing_restock", category |-> None, min_stock_level |-> 9]
    /\ InitialInventory["SKU003"].stock = 8
    /\ inventory["SKU003"].stock = 13
    /\ get_items_needing_restock(InitialInventory, shelf_layouts, storage_requests,
                                 None, 9).result.count = 1
    /\ "SKU003" \notin ListedItems(result.low_stock_items)
    /\ result.count = 0


\* The slots <<shelf, row, position>> (1-based) of the layouts sh.
Slots(sh) ==
    UNION {UNION {{<<shelf_id, i, p>> : p \in 1..Len(sh[shelf_id][i])} :
                     i \in 1..Len(sh[shelf_id])} : shelf_id \in DOMAIN sh}

\* The slots whose content the step changes.
ChangedSlots ==
    IF shelf_layouts' = shelf_layouts THEN {}
    ELSE {slot \in Slots(shelf_layouts) :
             shelf_layouts'[slot[1]][slot[2]][slot[3]]
                 # shelf_layouts[slot[1]][slot[2]][slot[3]]}

\* C20: the shelves, the number of rows of every shelf and the number of
\* slots of every row are what the fixture has them; a step changes the
\* content of at most one slot, only in a restock (mark_item_restocked, or
\* the image restock built on it), and for mark_item_restocked the slot is
\* the one the call addresses.
C20_GridDimensionsFixed ==
    /\ [](/\ DOMAIN shelf_layouts = DOMAIN InitialShelfLayouts
          /\ \A shelf_id \in DOMAIN shelf_layouts :
                /\ Len(shelf_layouts[shelf_id]) = Len(InitialShelfLayouts[shelf_id])
                /\ \A i \in 1..Len(shelf_layouts[shelf_id]) :
                       Len(shelf_layouts[shelf_id][i]) = Len(InitialShelfLayouts[shelf_id][i]))
    /\ [][/\ Cardinality(ChangedSlots) <= 1
          /\ ChangedSlots # {} =>
                /\ call'.op \in {"mark_item_restocked", "identify_and_restock_item_from_image"}
                /\ call'.op = "mark_item_restocked" =>
                       ChangedSlots = {<<call'.shelf_id, call'.shelf_index + 1,
                                         call'.position_index + 1>>}]_vars

\* C20 witness: mark_item_restocked put SKU001 into the third slot of the top
\* row of shelf A2, which held SKU004, and the row still has three slots.
C20_Witness ==
    /\ call = [op |-> "mark_item_restocked", item_id |-> "SKU001", shelf_id |-> "A2",
               shelf_index |-> 0, position_index |-> 2, quantity |-> 5]
    /\ InitialShelfLayouts["A2"][1] = <<"SKU003", "SKU003", "SKU004">>
    /\ shelf_layouts["A2"][1] = <<"SKU003", "SKU003", "SKU001">>
    /\ Len(shelf_layouts["A2"]) = 4


\* C21: the inventory holds the fixture's item identifiers and the layout
\* table the fixture's shelf identifiers in every reachable state; and
\* get_store_layout_overview returns every shelf identifier of the table,
\* once, with count their number, and changes no table.
C21_KeysNeverChange ==
    /\ [](/\ DOMAIN inventory = DOMAIN InitialInventory
          /\ DOMAIN shelf_layouts = DOMAIN InitialShelfLayouts)
    /\ [][(calls' = calls + 1 /\ call'.op = "get_store_layout_overview") =>
             /\ {result'.shelf_ids[k] : k \in 1..Len(result'.shelf_ids)} = DOMAIN shelf_layouts
             /\ Len(result'.shelf_ids) = Cardinality(DOMAIN shelf_layouts)
             /\ result'.count = Len(result'.shelf_ids)
             /\ Tables' = Tables]_vars

\* C21 witness: after a restock that changed a stock and a slot, the overview
\* lists the eleven shelves of the fixture.
C21_Witness ==
    /\ calls = 2
    /\ call = [op |-> "get_store_layout_overview"]
    /\ inventory # InitialInventory
    /\ shelf_layouts # InitialShelfLayouts
    /\ result.count = 11
    /\ result.shelf_ids = ShelfKeys


\* The first characters of a text, at most n of them.
Take(text, n) == SubSeq(text, 1, IF Len(text) < n THEN Len(text) ELSE n)

\* A cell of twenty characters that starts with the text, cut to the cell.
Shows(cell, text) ==
    /\ Len(cell) = 20
    /\ SubSeq(cell, 1, Len(Take(text, 20))) = Take(text, 20)

\* C22: get_shelf_layout on a known shelf returns one row per level of the
\* shelf (four on the fixture), each cell showing what the slot holds when the
\* call is made: the display name of the item in it, or Empty; an unknown
\* shelf gives an error; the call changes no table.
C22_LayoutShowsCurrentSlots ==
    [][(calls' = calls + 1 /\ call'.op = "get_shelf_layout") =>
          /\ Tables' = Tables
          /\ IF call'.shelf_id \in DOMAIN shelf_layouts
             THEN LET layout == shelf_layouts[call'.shelf_id]
                      rows == result'.layout_visual
                  IN  /\ "error" \notin DOMAIN result'
                      /\ Len(rows) = Len(layout)
                      /\ Len(rows) = 4
                      /\ \A i \in 1..Len(layout) :
                            /\ Len(rows[i]) = Len(layout[i])
                            /\ \A p \in 1..Len(layout[i]) :
                                  IF layout[i][p] = None
                                  THEN Shows(rows[i][p], "Empty")
                                  ELSE Shows(rows[i][p], inventory[layout[i][p]].name)
             ELSE DOMAIN result' = {"error"}]_vars

\* C22 witness: SKU001 was restocked into the third slot of the top level of
\* A2, and the layout asked for next shows its name there.
C22_Witness ==
    /\ calls = 2
    /\ call = [op |-> "get_shelf_layout", shelf_id |-> "A2"]
    /\ InitialShelfLayouts["A2"][1][3] = "SKU004"
    /\ shelf_layouts["A2"][1][3] = "SKU001"
    /\ result.layout_visual[1][3] = "Contoso Cereal      "
    /\ result.layout_visual[4][1] = "Empty               "


\* The slots of a layout that hold x, as <<level, position>> counted from 0.
Holding(layout, x) ==
    {<<i - 1, p - 1>> : i \in 1..Len(layout), p \in 1..3} \cap
    {s \in (0..(Len(layout) - 1)) \X (0..2) : layout[s[1] + 1][s[2] + 1] = x}

\* The first slot of a non-empty set in row-major order.
RowMajorFirst(S) ==
    CHOOSE s \in S : \A t \in S : s[1] < t[1] \/ (s[1] = t[1] /\ s[2] <= t[2])

IsIdentify == calls' = calls + 1 /\ call'.op = "identify_and_restock_item_from_image"

\* The shelf of the item the call is about.
C23_Shelf == inventory[call'.item_id].location_id

\* C23: identify_and_restock_item_from_image on a known item restocks, on the
\* item's own shelf, the first slot in row-major order that holds the item,
\* even when an empty slot comes earlier; when no slot holds it, the first
\* empty slot in row-major order; when the shelf has neither, it returns an
\* error and changes no table.  Empty image_data is an error, no table changed.
C23_SlotChoice ==
    [][IsIdentify =>
          IF call'.item_id = ""
          THEN "error" \in DOMAIN result' /\ Tables' = Tables
          ELSE (call'.item_id \in DOMAIN inventory /\ C23_Shelf \in DOMAIN shelf_layouts) =>
               LET layout == shelf_layouts[C23_Shelf]
                   held == Holding(layout, call'.item_id)
                   empty == Holding(layout, None)
                   slot == IF held # {} THEN RowMajorFirst(held) ELSE RowMajorFirst(empty)
               IN  IF held = {} /\ empty = {}
                   THEN "error" \in DOMAIN result' /\ Tables' = Tables
                   ELSE IF call'.quantity > 0
                   THEN /\ "error" \notin DOMAIN result'
                        /\ shelf_layouts' = [shelf_layouts EXCEPT
                              ![C23_Shelf][slot[1] + 1][slot[2] + 1] = call'.item_id]
                        /\ inventory' = [inventory EXCEPT ![call'.item_id].stock = @ + call'.quantity]
                        /\ storage_requests' = storage_requests
                        /\ EndsWith(result'.restock_details.message,
                              " at " \o SlotLabel(C23_Shelf, slot[1], slot[2]) \o ".")
                   ELSE "error" \in DOMAIN result' /\ Tables' = Tables]_vars

\* C23 witness: SKU001 lay only on the bottom level of A1, below the empty
\* slot of the level above; the call restocked it where it lay, and the empty
\* slot stayed empty.
C23_Witness ==
    /\ calls = 1
    /\ call = [op |-> "identify_and_restock_item_from_image", item_id |-> "SKU001",
               quantity |-> 5]
    /\ shelf_layouts = LayoutsMoved
    /\ shelf_layouts["A1"][3][3] = None
    /\ inventory["SKU001"].stock = InitialInventory["SKU001"].stock + 5
    /\ "restock_details" \in DOMAIN result


IsLogDamaged == calls' = calls + 1 /\ call'.op = "log_damaged_item"

\* C24: log_damaged_item with a quantity of zero or less returns an error and
\* changes no table; with a positive quantity on a known item it sets the
\* item's stock to max(0, stock - quantity) and changes nothing else; on an
\* unknown item it returns the error of the inner update and changes no table.
C24_DamageLowersStock ==
    [][IsLogDamaged =>
          IF call'.quantity <= 0
          THEN /\ result' = [error |-> "Quantity must be positive."]
               /\ Tables' = Tables
          ELSE IF call'.item_id \in DOMAIN inventory
          THEN /\ "error" \notin DOMAIN result'
               /\ inventory' = [inventory EXCEPT ![call'.item_id].stock =
                                    Max(0, @ - call'.quantity)]
               /\ shelf_layouts' = shelf_layouts
               /\ storage_requests' = storage_requests
          ELSE /\ DOMAIN result' = {"error"}
               /\ EndsWith(result'.error,
                     update_inventory_count(inventory, shelf_layouts, storage_requests,
                         call'.item_id, 0 - call'.quantity, "").result.error)
               /\ Tables' = Tables]_vars

\* C24 witness: twenty damaged units of SKU003 were logged against a stock of
\* eight, which left none.
C24_Witness ==
    /\ calls = 1
    /\ call.op = "log_damaged_item"
    /\ call.item_id = "SKU003"
    /\ call.quantity = 20
    /\ InitialInventory["SKU003"].stock = 8
    /\ inventory["SKU003"].stock = 0
    /\ "message" \in DOMAIN result


\* The stream delivered an event and the loop body ran to its yield.
C25_EventStep ==
    /\ pc = "stream"
    /\ Len(log') = Len(log) + 1
    /\ log'[Len(log')].event_type # "exception"
    /\ ~IsRaising(log'[Len(log')])

\* C25: the turn terminates for every finite stream: the function is always
\* back at rest later on, whether the stream ends or raises; after
\* each event the loop body got through, the transcript is emitted and the
\* input box is empty; and what was emitted last is the final transcript.
C25_TurnTerminates ==
    /\ []<>(pc = "idle")
    /\ [][C25_EventStep =>
             /\ emitted' = Dicts(conversation')
             /\ input_box' = ""]_vars
    /\ []((pc = "idle" /\ conversation # <<>>) =>
             /\ emitted = Dicts(conversation)
             /\ input_box = "")

\* C25 witness: a turn is over whose stream delivered two events, the second
\* one raising in the loop body after its bubble was made; the transcript
\* emitted last holds that bubble.
C25_Witness ==
    /\ pc = "idle"
    /\ Len(log) = 2
    /\ log[1].event_type = "thread.message.delta"
    /\ IsRaising(log[2])
    /\ Len(conversation) > 2
    /\ emitted = Dicts(conversation)
    /\ input_box = ""


\* The stream delivered a message delta that carries text.
IsTextDelta ==
    /\ pc = "stream"
    /\ Len(log') = Len(log) + 1
    /\ log'[Len(log')].event_type = "thread.message.delta"
    /\ Concat(log'[Len(log')].content) # ""

\* The step appended one plain assistant entry and left the others alone.
AppendsPlainEntry ==
    /\ Len(conversation') = Len(conversation) + 1
    /\ IsPlainAssistant(conversation'[Len(conversation')])
    /\ \A i \in 1..Len(conversation) : conversation'[i] = conversation[i]

\* C26: a message delta whose message identifier differs from the tracked one
\* starts a new plain assistant entry, and the entry of the message tracked
\* before (every entry there was) is left exactly as it was.
C26_NewMessageStartsNewEntry ==
    [][(/\ IsTextDelta
        /\ event_handler.current_message_id # None
        /\ event_handler.current_message_id # log'[Len(log')].id)
       => AppendsPlainEntry]_vars

\* C27: a message delta with text that finds a tool bubble or a user entry at
\* the end of the transcript appends a new plain assistant entry there; and no
\* message delta modifies an entry located before the most recent one.
C27_OnlyLastEntryUpdated ==
    [][IsTextDelta =>
          /\ ~IsPlainAssistant(conversation[Len(conversation)]) => AppendsPlainEntry
          /\ \A i \in 1..(Len(conversation) - 1) : conversation'[i] = conversation[i]]_vars


\* The stream delivered the final form of an assistant message.
IsFinalized ==
    /\ pc = "stream"
    /\ Len(log') = Len(log) + 1
    /\ log'[Len(log')].event_type = "thread.message"
    /\ log'[Len(log')].role = "assistant"
    /\ log'[Len(log')].status = "completed"

\* Every message delta of the turn so far belongs to the message id.
OnlyMessage(id) ==
    \A k \in 1..Len(log) : log[k].event_type = "thread.message.delta" => log[k].id = id

\* The plain assistant entries the current turn has put into conv.
PlainOfTurn(conv) == {i \in TurnStart..Len(conv) : IsPlainAssistant(conv[i])}

\* C28: a finalized assistant message with text T sets the content of the
\* open plain assistant entry (the last entry, when it is one) to T; with no
\* such entry and T not empty it appends exactly one plain assistant entry
\* with content T; afterwards no message is tracked and the buffer is empty;
\* and the text of that message stands in at most one plain assistant entry.
C28_FinalizedMessageOnce ==
    [][IsFinalized =>
          LET T == Concat(log'[Len(log')].content)
              last == conversation[Len(conversation)]
          IN  /\ IsPlainAssistant(last) =>
                    conversation' = [conversation EXCEPT ![Len(conversation)].content = T]
              /\ (~IsPlainAssistant(last) /\ T # "") =>
                    conversation' = Append(conversation, ChatMessage("assistant", T, NoMetadata))
              /\ event_handler'.current_message_id = None
              /\ event_handler'.accumulated_text = ""
              /\ OnlyMessage(log'[Len(log')].id) =>
                    Cardinality(PlainOfTurn(conversation')) <= 1]_vars


\* The stream delivered a run status event.
IsRunStatus ==
    /\ pc = "stream"
    /\ Len(log') = Len(log) + 1
    /\ log'[Len(log')].event_type = "thread_run"

\* C29: a run status event, whatever its status, leaves the transcript and
\* the table of active tool calls unchanged.
C29_RunStatusChangesNothing ==
    [][IsRunStatus =>
          /\ conversation' = conversation
          /\ active_tool_calls' = active_tool_calls
          /\ emitted' = Dicts(conversation)]_vars

\* C29 witness: while the call call_1 was running, the run was reported
\* failed and then completed; the call is still in the table and its bubble
\* still pending.
C29_Witness ==
    /\ Len(log) = 3
    /\ log[1].event_type = "thread.run.step.delta"
    /\ log[2] = ThreadRun("failed")
    /\ log[3] = ThreadRun("completed")
    /\ "call_1" \in DOMAIN active_tool_calls
    /\ OneBubble(conversation, "call_1", "pending")


\* The summary written for the result of one of the three look-up functions,
\* None when the function or the result is not one of them.
C30_Summary(func_name, output) ==
    IF func_name = "check_item_stock" /\ "stock" \in DOMAIN output
    THEN output.name \o " (ID: " \o output.item_id \o "): " \o ToString(output.stock)
            \o " units in stock."
    ELSE IF func_name = "find_item_location" /\ "location_id" \in DOMAIN output
    THEN output.name \o " (ID: " \o output.item_id \o ") is located at Shelf "
            \o output.location_id \o ", Position " \o ToString(output.position) \o "."
    ELSE IF func_name = "get_items_needing_restock" /\ "count" \in DOMAIN output
            /\ output.count = 0
    THEN "No items found needing restock."
    ELSE None

\* The display message by the priority layout, message, error, summary,
\* fallback; the raw text when the output is not JSON.
C30_Display(func_name, output_str) ==
    LET parsed == JsonLoads(output_str)
    IN  IF ~parsed.ok
        THEN "Completed. Output (non-JSON): " \o Truncated(output_str, OutputLimit)
        ELSE IF func_name = "get_shelf_layout" /\ "layout_visual" \in DOMAIN parsed.value
        THEN parsed.value.layout_visual
        ELSE IF "message" \in DOMAIN parsed.value THEN parsed.value.message
        ELSE IF "error" \in DOMAIN parsed.value THEN "Error: " \o parsed.value.error
        ELSE IF C30_Summary(func_name, parsed.value) # None
        THEN C30_Summary(func_name, parsed.value)
        ELSE "Completed. Output: " \o Truncated(output_str, OutputLimit)

\* C30: the step that processes a completed step leaves, for every function
\* call of the event that has an output, its bubble in status done with the
\* display message chosen by priority: the layout of a shelf-layout result,
\* else the message field, else the error field after "Error: ", else the
\* summary of the function, else the truncated output; and the truncated raw
\* text when the output is not JSON.
C30_DisplayMessagePriority ==
    [][(Len(log') = Len(log) + 1 /\ IsCompletedStep(log'[Len(log')])) =>
          \A k \in 1..Len(log'[Len(log')].tool_calls) :
              LET tcall == log'[Len(log')].tool_calls[k]
                  func_name == TrackedName(active_tool_calls, tcall.id)
              IN  tcall.function.output # "" =>
                    /\ OneBubble(conversation', tcall.id, "done")
                    /\ \A i \in BubbleIndices(conversation', BubbleId(tcall.id)) :
                           conversation'[i].content =
                               C30_Display(func_name, tcall.function.output)]_vars


\* The entry of the user message of the current turn.
UserIndex == TurnStart - 1

\* C31: an accepted turn appends exactly one user entry with the submitted
\* text to the prior transcript and emits it, then sends the message, then
\* opens the stream: the stream is entered only from a successful send, an
\* event is processed only while the stream is open, and whatever the turn
\* adds stands after the user entry, which stays as it was.
C31_TurnOrder ==
    [][/\ (pc # "send" /\ pc' = "send") =>
             /\ pc = "idle"
             /\ Len(conversation') = Len(emitted) + 1
             /\ \A i \in 1..Len(emitted) : emitted'[i] = emitted[i]
             /\ conversation'[Len(conversation')].role = "user"
             /\ conversation'[Len(conversation')].content \in UserMessageInputs
             /\ ~IsBlank(conversation'[Len(conversation')].content)
             /\ emitted' = Dicts(conversation')
             /\ log' = <<>>
       /\ (pc # "stream" /\ pc' = "stream") =>
             /\ pc = "send"
             /\ conversation' = conversation
             /\ log' = <<>>
       /\ (Len(log') = Len(log) + 1) => pc = "stream"
       /\ pc # "idle" =>
             /\ Len(conversation') >= Len(conversation)
             /\ conversation'[UserIndex] = conversation[UserIndex]
             /\ \A i \in (Len(conversation) + 1)..Len(conversation') :
                    conversation'[i].role = "assistant"]_vars

\* C31 witness: a turn on top of an earlier one has sent its message and
\* processed a first event; its user entry is the fourth, right after the
\* three entries of the earlier turn, and the answer comes after it.
C31_Witness ==
    /\ pc = "stream"
    /\ Len(log) = 1
    /\ Len(EarlierTranscript) = 3
    /\ UserIndex = 4
    /\ conversation[4] = ChatMessage("user", "Check stock for SKU001", NoMetadata)
    /\ Len(conversation) = 5
    /\ emitted = Dicts(conversation)


\* C32: while a stream is being processed, every call identifier in the
\* active tool-call table has exactly one bubble in the transcript, and that
\* bubble is pending.
C32_ActiveCallsArePending ==
    pc = "stream" =>
        \A call_id \in DOMAIN active_tool_calls :
            OneBubble(conversation, call_id, "pending")

\* C32 witness: two calls were started and the step then completed for
\* call_1 alone; call_2 is still in the table with its pending bubble, and
\* call_1 has left the table with its bubble done.
C32_Witness ==
    /\ pc = "stream"
    /\ Len(log) = 2
    /\ log[2] = RunStep("tool_calls", "completed", <<FunctionCall("call_1", OutStock)>>, None)
    /\ DOMAIN active_tool_calls = {"call_2"}
    /\ OneBubble(conversation, "call_2", "pending")
    /\ OneBubble(conversation, "call_1", "done")


\* The stream delivered the completed step it had delivered just before.
IsCompletedAgain ==
    /\ pc = "stream"
    /\ Len(log) >= 1
    /\ Len(log') = Len(log) + 1
    /\ log'[Len(log')] = log[Len(log)]
    /\ IsCompletedStep(log'[Len(log')])

\* C33: processing a "tool call completed" event a second time leaves the
\* whole transcript as the first time left it: every bubble keeps its title,
\* its content and its status.
C33_CompletedAgainChangesNothing ==
    [][IsCompletedAgain => conversation' = conversation]_vars


\* What an entry is and stays: its role and, for a bubble, its identifier.
EntryKind(msg) ==
    IF Truthy(msg.metadata) THEN <<msg.role, msg.metadata.id>> ELSE <<msg.role, "plain">>

\* C34: within a turn the transcript only grows: every step of a turn keeps
\* every entry at its place with its role (and a bubble with its
\* identifier), leaves the content of the user entries as it is, and removes
\* none; and the emitted transcript never gets shorter.
C34_TranscriptOnlyGrows ==
    [][/\ pc # "idle" =>
             /\ Len(conversation') >= Len(conversation)
             /\ \A i \in 1..Len(conversation) :
                    /\ EntryKind(conversation'[i]) = EntryKind(conversation[i])
                    /\ conversation[i].role = "user" => conversation'[i] = conversation[i]
       /\ Len(emitted') >= Len(emitted)
       /\ \A i \in 1..Len(emitted) :
              /\ EntryKind(emitted'[i]) = EntryKind(emitted[i])
              /\ emitted[i].role = "user" => emitted'[i] = emitted[i]]_vars

\* C34 witness: on top of an earlier turn, the stream of the current turn
\* has delivered three events and then failed; the transcript holds the
\* three entries of the earlier turn, the user entry and what the turn added,
\* the error entry last.
C34_Witness ==
    /\ pc = "idle"
    /\ Len(log) = 4
    /\ log[4] = StreamException
    /\ Len(emitted) > 5
    /\ \A i \in 1..3 : EntryKind(emitted[i]) = EntryKind(EarlierTranscript[i])
    /\ emitted[4].role = "user"
    /\ emitted = Dicts(conversation)


\* The stream delivered an event (and did not raise instead).
IsStreamEvent ==
    /\ pc = "stream"
    /\ Len(log') = Len(log) + 1
    /\ log'[Len(log')].event_type # "exception"

\* C35: the events of a turn leave the entries of earlier turns, those
\* before the turn's user entry, exactly as they were.
C35_HistoryUntouched ==
    [][IsStreamEvent =>
          \A i \in 1..(UserIndex - 1) : conversation'[i] = conversation[i]]_vars


\* The text of all plain assistant entries of conv, in transcript order.
PlainText(conv) ==
    Concat([i \in 1..Len(conv) |->
               IF IsPlainAssistant(conv[i]) THEN conv[i].content ELSE ""])

\* C36: a message delta puts the text of its fragment into the transcript
\* exactly once: when the transcript ends with a plain assistant entry the
\* fragment is added once to that entry, and when the transcript holds no
\* plain assistant entry one entry with the fragment alone is appended.
C36_FragmentAppliedOnce ==
    [][IsTextDelta =>
          LET fragment == Concat(log'[Len(log')].content)
              last == conversation[Len(conversation)]
          IN  /\ IsPlainAssistant(last) =>
                    /\ Len(conversation') = Len(conversation)
                    /\ conversation'[Len(conversation)].content = last.content \o fragment
              /\ PlainText(conversation) = "" =>
                    conversation' = Append(conversation,
                                           ChatMessage("assistant", fragment, NoMetadata))]_vars


\* The slots whose content differs from the fixture's.
ChangedFromInitial ==
    {slot \in Slots(shelf_layouts) :
        shelf_layouts[slot[1]][slot[2]][slot[3]]
            # InitialShelfLayouts[slot[1]][slot[2]][slot[3]]}

\* mark_item_restocked returned its success message.
IsRestocked ==
    /\ call'.op = "mark_item_restocked"
    /\ calls' = calls + 1
    /\ "message" \in DOMAIN result'

\* C37: a successful mark_item_restocked changes no slot but the addressed
\* one, which then holds the item, and no item but the restocked one, whose
\* stock changes and whose other fields (location_id and position among
\* them) stay, whether or not the target shelf is the item's location.
C37_RestockFrame ==
    [][IsRestocked =>
          LET c == call'
              addressed == <<c.shelf_id, c.shelf_index + 1, c.position_index + 1>>
          IN  /\ ChangedSlots \subseteq {addressed}
              /\ shelf_layouts'[c.shelf_id][c.shelf_index + 1][c.position_index + 1] = c.item_id
              /\ \A item_id \in DOMAIN inventory \ {c.item_id} :
                     inventory'[item_id] = inventory[item_id]
              /\ inventory'[c.item_id].stock # inventory[c.item_id].stock
              /\ inventory'[c.item_id] =
                     [inventory[c.item_id] EXCEPT !.stock = inventory'[c.item_id].stock]
              /\ storage_requests' = storage_requests]_vars

\* C37 witness: SKU001, located on A1, was restocked into the slot of shelf
\* A2 that held SKU004: it is still recorded on A1 at position 1, and SKU004
\* has the stock it had.
C37_Witness ==
    /\ calls = 1
    /\ call.op = "mark_item_restocked"
    /\ call.item_id = "SKU001" /\ call.shelf_id = "A2"
    /\ call.shelf_index = 0 /\ call.position_index = 2
    /\ "message" \in DOMAIN result
    /\ ChangedFromInitial = {<<"A2", 1, 3>>}
    /\ InitialShelfLayouts["A2"][1][3] = "SKU004"
    /\ inventory["SKU001"].location_id = "A1"
    /\ inventory["SKU001"].position = InitialInventory["SKU001"].position
    /\ inventory["SKU001"].stock = InitialInventory["SKU001"].stock + call.quantity
    /\ inventory["SKU004"] = InitialInventory["SKU004"]


\* The functions that reach update_inventory_count.
StockWriters ==
    {"update_inventory_count", "mark_item_restocked", "log_damaged_item",
     "identify_and_restock_item_from_image"}

\* C38: request_item_from_storage and check_delivery_status leave every
\* item record and every shelf slot as they were, whatever the status of the
\* request becomes; and a step that changes the stock of an item is a call of
\* update_inventory_count or of one of the three functions that call it.
C38_RequestsLeaveStock ==
    [][/\ call'.op \in {"request_item_from_storage", "check_delivery_status"} =>
              /\ inventory' = inventory
              /\ shelf_layouts' = shelf_layouts
       /\ (\E item_id \in DOMAIN inventory :
               inventory'[item_id].stock # inventory[item_id].stock) =>
              /\ calls' = calls + 1
              /\ call'.op \in StockWriters]_vars

\* C38 witness: the check of request REQ1000, which was on its way, found it
\* delivered, and the inventory and the shelves are the fixture's.
C38_Witness ==
    /\ calls = 1
    /\ call = [op |-> "check_delivery_status", request_id |-> "REQ1000"]
    /\ RequestInTransit["REQ1000"].status = "In Transit"
    /\ result.status = "Delivered"
    /\ storage_requests["REQ1000"].status = "Delivered"
    /\ inventory = InitialInventory
    /\ shelf_layouts = InitialShelfLayouts


\* C39: once the chat history has been cleared, the message of an accepted
\* submission is sent to the thread the clearing created, the current value
\* of main.py's thread, and the stream of the turn is opened on it.
C39_SendsToNewThread ==
    [][(/\ thread # FirstThread
        /\ pc = "send"
        /\ pc' = "stream")
       => turn_thread' = thread]_vars


\* The step is a check_delivery_status call for the request.
IsCheckOf(request_id) ==
    /\ call'.op = "check_delivery_status"
    /\ call'.request_id = request_id

\* C40: with fair draws a request that is checked again and again is
\* eventually Delivered; and a Pending request stays in the table and stays
\* Pending in every step that is not a check of it.
C40_CheckedRequestsArrive ==
    /\ \A request_id \in RequestIdInputs :
           (request_id \in DOMAIN storage_requests)
               ~> (StatusOf(request_id) = "Delivered")
    /\ [][\A request_id \in RequestIdInputs :
              (StatusOf(request_id) = "Pending" /\ ~IsCheckOf(request_id))
                  => StatusOf(request_id)' = "Pending"]_vars

\* C40 witness: request REQ1000, created Pending by a call before, was found
\* Delivered by the last check, while REQ9999 has not left Pending.
C40_Witness ==
    /\ call = [op |-> "check_delivery_status", request_id |-> "REQ1000"]
    /\ StatusOf("REQ1000") = "Delivered"
    /\ result.status = "Delivered"
    /\ StatusOf("REQ9999") = "Pending"
    /\ calls = MaxCalls

====
